---- MODULE Spec2Model ----
(***************************************************************************)
(* ZK lending MVP: the CollateralCheck circuit, the compile / setup /      *)
(* prove / verify scripts around it, and the ZKLending ledger contract.    *)
(*                                                                         *)
(* Conventions.  A file on disk is a sequence of length <= 1: << >> is an  *)
(* absent file, <<c>> a file whose content is c.  A zkey / verification    *)
(* key is identified by the setup run that produced it: 0 is the zkey of   *)
(* `snarkjs groth16 setup` (no contribution), n >= 1 the final zkey of the *)
(* n-th `snarkjs zkey contribute`.  A Groth16 proof is the record of the   *)
(* key it was made with and the public signals of the witness it proves.   *)
(***************************************************************************)
EXTENDS Integers, Sequences, FiniteSets, TLC

(***************************************************************************)
(* Bounds of the model.                                                    *)
(***************************************************************************)
MaxCollateral == 2
MaxPrice == 2
MaxBorrow == 3
MaxSetups == 2
MaxCoord == 10

(***************************************************************************)
(* The scalar field of the circuit.  circom computes every signal modulo   *)
(* the BN254 scalar prime; the model keeps the arithmetic and scales the   *)
(* prime down so that TLC's integers can hold a product of two elements.   *)
(***************************************************************************)
FieldPrime == 10007

ToField(x) == x % FieldPrime

FieldMul(a, b) == (a * b) % FieldPrime

RECURSIVE FieldPow(_, _)
FieldPow(a, e) ==
    IF e = 0 THEN 1
    ELSE LET h == FieldPow(a, e \div 2)
             s == FieldMul(h, h)
         IN IF e % 2 = 1 THEN FieldMul(s, a) ELSE s

\* b^(p-2): the multiplicative inverse of b /= 0.
FieldInv(b) == FieldPow(b, FieldPrime - 2)

\* circom's `/` is multiplication by the inverse, not an integer quotient.
FieldDiv(a, b) == FieldMul(a, FieldInv(b))

\* circom's relational operators compare val(z): z - p when z > p \div 2.
FieldVal(z) == IF z >= (FieldPrime \div 2) + 1 THEN z - FieldPrime ELSE z

FieldLeq(a, b) == FieldVal(a) <= FieldVal(b)

(***************************************************************************)
(* Inputs of a proof request (circuits/input.json).                        *)
(***************************************************************************)
\* The account addresses, as the integers uint256(uint160(address)).
Users == {1, 2}

Ratios == {0, 100, 150}

InputGrid ==
    [userCollateralAmount : 0..MaxCollateral,
     collateralPrice : 0..MaxPrice,
     userAddress : Users,
     borrowAmount : 0..MaxBorrow,
     collateralizationRatio : Ratios]

(***************************************************************************)
(* template CollateralCheck(): the signals computed for one input, given   *)
(* the value q that the witness calculator gives the quotient of line 100. *)
(***************************************************************************)
CollateralCheckSignals(in, q) ==
    LET userCollateralAmount == ToField(in.userCollateralAmount)
        collateralPrice == ToField(in.collateralPrice)
        userAddress == ToField(in.userAddress)
        borrowAmount == ToField(in.borrowAmount)
        collateralValueCalc == FieldMul(userCollateralAmount, collateralPrice)
        collateralValue == collateralValueCalc
        maxBorrowableCalc == q
        maxBorrowable == maxBorrowableCalc
        borrowCheck == IF FieldLeq(borrowAmount, maxBorrowable) THEN 1 ELSE 0
    IN [input |-> in,
        userAddressHash |-> userAddress,
        borrowAmountHash |-> borrowAmount,
        collateralValue |-> collateralValue,
        maxBorrowable |-> maxBorrowable,
        canBorrow |-> borrowCheck]

\* Line 100: (collateralValue * 100) / collateralizationRatio.
MaxBorrowableCalc(in) ==
    FieldDiv(FieldMul(FieldMul(ToField(in.userCollateralAmount),
                               ToField(in.collateralPrice)), 100),
             ToField(in.collateralizationRatio))

\* Line 115 is an expression statement: it is evaluated and its value is
\* dropped; it is neither a constraint (===) nor an assert.
SolvencyExpression(in) ==
    FieldLeq(FieldMul(ToField(in.borrowAmount), ToField(in.collateralizationRatio)),
             FieldMul(FieldMul(ToField(in.userCollateralAmount),
                               ToField(in.collateralPrice)), 100))

\* CollateralCheck with line 115 taken for an assertion of a strict inequality.
CollateralCheck_StrictAssert(in) ==
    IF in.borrowAmount * in.collateralizationRatio
          >= in.userCollateralAmount * in.collateralPrice * 100
    THEN {<< >>}
    ELSE IF ToField(in.collateralizationRatio) = 0
    THEN {<< >>, <<CollateralCheckSignals(in, 0)>>}
    ELSE {<<CollateralCheckSignals(in, MaxBorrowableCalc(in))>>}

\* The outcomes of witness generation for one input: << >> is a failed
\* generation, <<w>> a witness.  A zero divisor is toolchain-defined: the
\* JavaScript field (F.inv) throws "Division by zero", the compiled runtimes
\* give the inverse of zero as zero.
CollateralCheck(in) ==
    IF ToField(in.collateralizationRatio) = 0
    THEN {<< >>, <<CollateralCheckSignals(in, 0)>>}
    ELSE {<<CollateralCheckSignals(in, MaxBorrowableCalc(in))>>}

\* public.json: the circuit's outputs in declaration order.
PublicSignals(w) ==
    <<w.userAddressHash, w.borrowAmountHash, w.collateralValue,
      w.maxBorrowable, w.canBorrow>>

(***************************************************************************)
(* Groth16 as the toolkit provides it.                                     *)
(***************************************************************************)
\* snarkjs groth16 prove <zkey> <witness>
Groth16Prove(zkey, w) == [key |-> zkey, pub |-> PublicSignals(w)]

\* snarkjs groth16 verify <vkey> <public> <proof>
Groth16Verify(vkey, pub, proof) == proof.key = vkey /\ proof.pub = pub

(***************************************************************************)
(* State.                                                                  *)
(***************************************************************************)
VARIABLES
    \* circuits/build and the project directory
    r1csFile,        \* build/collateral_check.r1cs
    wasmFile,        \* build/collateral_check.wasm
    wasmJsDir,       \* build/collateral_check_js/: generate_witness.js and collateral_check.wasm
    potFile,         \* pot12_final.ptau: <<"ptau">>, or <<"empty">> after a failed download
    zkey0000,        \* build/collateral_check_0000.zkey
    zkeyFinal,       \* build/collateral_check_final.zkey
    vkeyBuild,       \* build/verification_key.json
    vkeyCircuits,    \* circuits/verification_key.json
    verifierSol,     \* contracts/Verifier.sol
    setupRuns,       \* contributions made so far
    \* circuits/
    inputJson,       \* circuits/input.json
    witnessFile,     \* circuits/witness.wtns
    proofJson,       \* circuits/proof.json and circuits/public.json
    \* the script that runs (one at a time) and what it has done
    script, pc, exit, stdout, reqInput, result,
    request,         \* the call as it was made, and proof.json as it was when the run started
    procs,           \* two invocations that run at the same time, each at its own step
    wire,            \* a proof on its way from snarkjs to a reader of its encoding
    entry,           \* the ledger call that is inside its external token call, if any
    \* ZKLending, its oracle, its verifier and the two tokens
    collateralBalance,       \* mapping(address => uint256)
    borrowBalance,           \* mapping(address => uint256)
    collateralizationRatio,  \* percent
    verifier,                \* the verification key of the deployed Verifier
    oraclePrice,             \* MockPriceOracle.price (int256)
    oracleDecimals,          \* MockPriceOracle.decimals
    liquidationThreshold,    \* percent
    priceOracle,             \* the oracle the ledger reads
    stableHeld,              \* stableToken.balanceOf(ZKLending)
    collateralHeld,          \* collateralToken.balanceOf(ZKLending)
    lastCall                 \* the last transaction or call and how it ended

diskVars == <<r1csFile, wasmFile, wasmJsDir, potFile, zkey0000, zkeyFinal, vkeyBuild,
              vkeyCircuits, verifierSol, setupRuns>>
requestFiles == <<inputJson, witnessFile, proofJson>>
runVars == <<script, pc, exit, stdout, reqInput, result, request>>
sideVars == <<procs, wire, entry>>
pipelineVars == <<diskVars, requestFiles, runVars, sideVars>>
balances == <<collateralBalance, borrowBalance>>
tokenVars == <<stableHeld, collateralHeld>>
configVars == <<collateralizationRatio, verifier, oraclePrice, oracleDecimals,
                liquidationThreshold, priceOracle>>
ledgerVars == <<balances, tokenVars, configVars, lastCall>>
vars == <<pipelineVars, ledgerVars>>

NoFile == << >>
Exists(file) == file /= NoFile

\* No script is running: none has started, or the last one has exited.
Idle == pc = "exited"

\* What a proof request has produced in memory: nothing yet.
NoResult == [proof |-> << >>, verified |-> << >>, returned |-> FALSE]

\* What a script has written to its console: nothing yet.
NoOutput == [input |-> << >>, publicSignals |-> << >>, proof |-> << >>,
             isValid |-> << >>]

\* A run started without an argument.  arg is the object passed to the entry
\* point, missing the fields the caller left out of it, issued the content of
\* proof.json / public.json when the run started.
NoRequest == [arg |-> << >>, missing |-> {}, issued |-> << >>]

InitDisk ==
    /\ r1csFile = NoFile /\ wasmFile = NoFile /\ wasmJsDir = NoFile
    /\ potFile = NoFile
    /\ zkey0000 = NoFile /\ zkeyFinal = NoFile
    /\ vkeyBuild = NoFile /\ vkeyCircuits = NoFile /\ verifierSol = NoFile
    /\ setupRuns = 0

\* No ledger function is executing: ReentrancyGuard's _status is _NOT_ENTERED.
NotEntered == [entered |-> FALSE, call |-> << >>, saved |-> << >>]

\* No script runs and no transaction is under way.
InitIdle ==
    /\ script = "none" /\ pc = "exited" /\ exit = "none"
    /\ entry = NotEntered
    /\ stdout = NoOutput /\ reqInput = NoFile /\ result = NoResult
    /\ request = NoRequest

\* An invocation that is not running, and no proof under way.
NoProc == [pc |-> "none", input |-> << >>, proof |-> << >>, key |-> 0,
           overlap |-> FALSE]

NoWire == [proof |-> << >>, json |-> << >>, parsed |-> << >>,
           calldata |-> << >>, decoded |-> << >>]

\* One script at a time: no concurrent invocations.
InitRun ==
    /\ InitIdle
    /\ procs = [i \in {1, 2} |-> NoProc]
    /\ wire = NoWire

InitPipeline ==
    /\ InitDisk
    /\ inputJson = NoFile /\ witnessFile = NoFile /\ proofJson = NoFile
    /\ InitRun

\* An entry point is called with an argument: a fresh process whose console
\* shows what it has logged on entry.
BeginLogging(name, arg, missing, logged) ==
    /\ Idle
    /\ script' = name
    /\ stdout' = logged /\ reqInput' = NoFile /\ result' = NoResult
    /\ request' = [arg |-> arg, missing |-> missing, issued |-> proofJson]

BeginRequest(name, arg, missing) == BeginLogging(name, arg, missing, NoOutput)

\* A script starts.
Begin(name) == BeginRequest(name, NoFile, {})

Start(name, first) == Begin(name) /\ pc' = first /\ exit' = "running"

Running(name, at) == script = name /\ pc = at

\* process.exit(code)
Exit(code) == pc' = "exited" /\ exit' = code

Goto(at) == pc' = at /\ exit' = exit

(***************************************************************************)
(* scripts/compile-circuit.js: one circom run writes the constraint system *)
(* and the witness generator.  circom 2 (pragma circom 2.0.0) puts the     *)
(* generator and the wasm in <output>/collateral_check_js/; it writes no   *)
(* <output>/collateral_check.wasm.                                         *)
(***************************************************************************)
CompileCircuit ==
    /\ Begin("compile")
    /\ r1csFile' = <<"r1cs">> /\ wasmJsDir' = <<"wasm">>
    /\ Exit("ok")
    /\ UNCHANGED <<wasmFile, potFile, zkey0000, zkeyFinal, vkeyBuild, vkeyCircuits,
                   verifierSol, setupRuns, requestFiles>>

(***************************************************************************)
(* scripts/setup-circuit.js                                                *)
(***************************************************************************)
SetupStart ==
    /\ setupRuns < MaxSetups
    /\ Start("setup", "r1cs")
    /\ UNCHANGED <<diskVars, requestFiles>>

\* if (!fs.existsSync(r1csFile)) process.exit(1)
SetupCheckR1cs ==
    /\ Running("setup", "r1cs")
    /\ IF Exists(r1csFile) THEN Goto("pot") ELSE Exit("error")
    /\ UNCHANGED <<diskVars, requestFiles, script, request, stdout, reqInput, result>>

\* if (!fs.existsSync(potFile)) wget ... -O potFile: wget creates the output
\* file before it downloads, so a failed download leaves it empty or cut
\* short; a wget that cannot start leaves no file.  execSync throws and the
\* script exits 1.
SetupPot ==
    /\ Running("setup", "pot")
    /\ IF Exists(potFile)
       THEN Goto("phase1") /\ potFile' = potFile
       ELSE \/ Goto("phase1") /\ potFile' = <<"ptau">>
            \/ Exit("error") /\ potFile' = <<"empty">>
            \/ Exit("error") /\ potFile' = NoFile
    /\ UNCHANGED <<r1csFile, wasmFile, wasmJsDir, zkey0000, zkeyFinal, vkeyBuild,
                   vkeyCircuits, verifierSol, setupRuns,
                   requestFiles, script, request, stdout, reqInput, result>>

\* snarkjs groth16 setup r1cs ptau collateral_check_0000.zkey
SetupPhase1 ==
    /\ Running("setup", "phase1")
    /\ IF potFile = <<"ptau">>
       THEN Goto("contribute") /\ zkey0000' = <<0>>
       ELSE Exit("error") /\ zkey0000' = zkey0000
    /\ UNCHANGED <<r1csFile, wasmFile, wasmJsDir, potFile, zkeyFinal, vkeyBuild,
                   vkeyCircuits, verifierSol, setupRuns,
                   requestFiles, script, request, stdout, reqInput, result>>

\* snarkjs zkey contribute 0000.zkey final.zkey: fresh randomness every run.
SetupContribute ==
    /\ Running("setup", "contribute")
    /\ setupRuns' = setupRuns + 1
    /\ zkeyFinal' = <<setupRuns + 1>>
    /\ Goto("export")
    /\ UNCHANGED <<r1csFile, wasmFile, wasmJsDir, potFile, zkey0000, vkeyBuild,
                   vkeyCircuits, verifierSol,
                   requestFiles, script, request, stdout, reqInput, result>>

\* snarkjs zkey export verificationkey final.zkey verification_key.json
SetupExportVk ==
    /\ Running("setup", "export")
    /\ vkeyBuild' = zkeyFinal
    /\ Exit("ok")
    /\ UNCHANGED <<r1csFile, wasmFile, wasmJsDir, potFile, zkey0000, zkeyFinal,
                   vkeyCircuits, verifierSol, setupRuns,
                   requestFiles, script, request, stdout, reqInput, result>>

(***************************************************************************)
(* The export-verifier script: contracts/Verifier.sol from the final zkey. *)
(***************************************************************************)
ExportVerifier ==
    /\ Begin("export-verifier")
    /\ IF Exists(zkeyFinal)
       THEN verifierSol' = zkeyFinal /\ Exit("ok")
       ELSE verifierSol' = verifierSol /\ Exit("error")
    /\ UNCHANGED <<r1csFile, wasmFile, wasmJsDir, potFile, zkey0000, zkeyFinal, vkeyBuild,
                   vkeyCircuits, setupRuns, requestFiles>>

(***************************************************************************)
(* Inputs the operator provides.                                           *)
(***************************************************************************)
\* The requests tried in the full pipeline: a sample of the grid.
SampleInputs ==
    {in \in InputGrid :
        /\ in.userAddress = 1 /\ in.collateralPrice = 1 /\ in.borrowAmount = 1
        /\ in.userCollateralAmount \in {1, 2}
        /\ in.collateralizationRatio \in {100, 150}}

\* The operator edits circuits/input.json.
WriteInput ==
    /\ Idle
    /\ \E in \in SampleInputs : inputJson' = <<in>>
    /\ UNCHANGED <<diskVars, witnessFile, proofJson, runVars>>

\* generateProof reads circuits/verification_key.json, which no script
\* writes: the operator copies build/verification_key.json there.
InstallVerificationKey ==
    /\ Idle
    /\ Exists(vkeyBuild)
    /\ vkeyCircuits' = vkeyBuild
    /\ UNCHANGED <<r1csFile, wasmFile, wasmJsDir, potFile, zkey0000, zkeyFinal, vkeyBuild,
                   verifierSol, setupRuns, requestFiles, runVars>>

\* scripts/generate-proof.js and the client look for the wasm at
\* build/collateral_check.wasm, where no script puts it: the operator copies
\* build/collateral_check_js/collateral_check.wasm there.
InstallWasm ==
    /\ Idle
    /\ Exists(wasmJsDir)
    /\ wasmFile' = wasmJsDir
    /\ UNCHANGED <<r1csFile, wasmJsDir, potFile, zkey0000, zkeyFinal, vkeyBuild,
                   vkeyCircuits, verifierSol, setupRuns, requestFiles, runVars>>

(***************************************************************************)
(* scripts/generate-proof.js                                               *)
(***************************************************************************)
GPStart ==
    /\ Start("generate-proof", "check")
    /\ UNCHANGED <<diskVars, requestFiles>>

\* The three existsSync checks, each exiting 1.
GPCheck ==
    /\ Running("generate-proof", "check")
    /\ IF Exists(wasmFile) /\ Exists(zkeyFinal) /\ Exists(inputJson)
       THEN Goto("witness") ELSE Exit("error")
    /\ UNCHANGED <<diskVars, requestFiles, script, request, stdout, reqInput, result>>

\* node generate_witness.js wasm input.json witness.wtns
GPWitness ==
    /\ Running("generate-proof", "witness")
    /\ reqInput' = inputJson
    /\ IF Exists(wasmJsDir)
       THEN \E w \in CollateralCheck(inputJson[1]) :
               IF w = NoFile
               THEN Exit("error") /\ witnessFile' = witnessFile
               ELSE Goto("prove") /\ witnessFile' = w
       ELSE Exit("error") /\ witnessFile' = witnessFile
    /\ UNCHANGED <<diskVars, inputJson, proofJson, script, request, stdout, result>>

\* snarkjs groth16 prove final.zkey witness.wtns proof.json public.json
GPProve ==
    /\ Running("generate-proof", "prove")
    /\ proofJson' = <<Groth16Prove(zkeyFinal[1], witnessFile[1])>>
    /\ Goto("verify")
    /\ UNCHANGED <<diskVars, inputJson, witnessFile, script, request, stdout, reqInput, result>>

\* The verify command run against the key the proof came with.
ScriptVerify_OwnKey(vkey, proof) == Groth16Verify(proof.key, proof.pub, proof)

\* snarkjs groth16 verify verification_key.json public.json proof.json:
\* the command exits 1 on an invalid proof, execSync throws, the script exits 1.
ScriptVerify(vkey, proof) == Groth16Verify(vkey, proof.pub, proof)

GPVerify ==
    /\ Running("generate-proof", "verify")
    /\ IF Exists(vkeyBuild)
       THEN LET ok == ScriptVerify(vkeyBuild[1], proofJson[1])
            IN /\ result' = [result EXCEPT !.verified = <<ok>>]
               /\ IF ok THEN Goto("report") ELSE Exit("error")
       ELSE result' = result /\ Exit("error")
    /\ UNCHANGED <<diskVars, requestFiles, script, request, stdout, reqInput>>

\* "Proof generated and verified successfully!", then the proof details.
GPReport ==
    /\ Running("generate-proof", "report")
    /\ stdout' = [stdout EXCEPT !.publicSignals = <<proofJson[1].pub>>,
                                !.proof = proofJson]
    /\ Exit("ok")
    /\ UNCHANGED <<diskVars, requestFiles, script, request, reqInput, result>>

(***************************************************************************)
(* circuits/generate_proof.js: generateProof(), run as a script.           *)
(***************************************************************************)
\* The objects a caller passes to generateProof, as the backend example does.
CallArguments == {<<in>> : in \in {x \in SampleInputs : x.collateralizationRatio = 150}}

\* generateProof() is declared without parameters: run as a script it gets
\* none, and an object a caller passes is never looked at.
GenStart ==
    /\ \E arg \in {NoFile} \cup CallArguments : BeginRequest("generateProof", arg, {})
    /\ pc' = "read" /\ exit' = "running"
    /\ UNCHANGED <<diskVars, requestFiles>>

\* input = JSON.parse(readFileSync("circuits/input.json")); console.log("Input:", input)
GenRead ==
    /\ Running("generateProof", "read")
    /\ IF Exists(inputJson)
       THEN /\ reqInput' = inputJson
            /\ stdout' = [stdout EXCEPT !.input = inputJson]
            /\ Goto("witness")
       ELSE /\ reqInput' = reqInput /\ stdout' = stdout
            /\ Exit("error")
    /\ UNCHANGED <<diskVars, requestFiles, script, request, result>>

\* execSync("node .../generate_witness.js .../collateral_check.wasm input.json witness.wtns")
GenWitness ==
    /\ Running("generateProof", "witness")
    /\ IF Exists(wasmJsDir)
       THEN \E w \in CollateralCheck(inputJson[1]) :
               IF w = NoFile
               THEN Exit("error") /\ witnessFile' = witnessFile
               ELSE Goto("prove") /\ witnessFile' = w
       ELSE Exit("error") /\ witnessFile' = witnessFile
    /\ UNCHANGED <<diskVars, inputJson, proofJson, script, request, stdout, reqInput, result>>

\* snarkjs.groth16.prove("circuits/build/collateral_check_0000.zkey", witness.wtns),
\* then proof.json and public.json are written and the public signals logged.
GenProve ==
    /\ Running("generateProof", "prove")
    /\ IF Exists(zkey0000)
       THEN LET proof == Groth16Prove(zkey0000[1], witnessFile[1])
            IN /\ result' = [result EXCEPT !.proof = <<proof>>]
               /\ proofJson' = <<proof>>
               /\ stdout' = [stdout EXCEPT !.publicSignals = <<proof.pub>>]
               /\ Goto("verify")
       ELSE /\ result' = result /\ proofJson' = proofJson /\ stdout' = stdout
            /\ Exit("error")
    /\ UNCHANGED <<diskVars, inputJson, witnessFile, script, request, reqInput>>

\* snarkjs.groth16.verify(vKey, publicSignals, proof)
LocalVerify(vKey, publicSignals, proof) == Groth16Verify(vKey, publicSignals, proof)

\* What generateProof does with isValid: it is logged and the proof is
\* returned either way; the caller then exits 0.
GenOutcome(isValid) == "ok"

\* vKey = JSON.parse(readFileSync("circuits/verification_key.json"));
\* isValid = await snarkjs.groth16.verify(vKey, publicSignals, proof)
GenVerify ==
    /\ Running("generateProof", "verify")
    /\ IF Exists(vkeyCircuits)
       THEN LET proof == result.proof[1]
                isValid == LocalVerify(vkeyCircuits[1], proof.pub, proof)
            IN /\ stdout' = [stdout EXCEPT !.isValid = <<isValid>>]
               /\ result' = [result EXCEPT !.verified = <<isValid>>,
                                           !.returned = GenOutcome(isValid) = "ok"]
               /\ Exit(GenOutcome(isValid))
       ELSE /\ stdout' = stdout /\ result' = result
            /\ Exit("error")
    /\ UNCHANGED <<diskVars, requestFiles, script, request, reqInput>>

(***************************************************************************)
(* ZKLendingClient.generateBorrowProof(params).  exit is "ok" when the     *)
(* call returns and "error" when it throws.                                *)
(***************************************************************************)
Fields == {"userCollateralAmount", "collateralPrice", "userAddress",
           "borrowAmount", "collateralizationRatio"}

\* The parameter objects tried: a complete one, one without
\* collateralizationRatio, one without borrowAmount.
ClientOmissions == {{}, {"collateralizationRatio"}, {"borrowAmount"}}

\* const { ..., collateralizationRatio = "150" } = params; const input = {...}:
\* a parameter left out is undefined (written 0 here, and never computed
\* with), but for the ratio, which gets "150".
ClientInput(params, missing) ==
    LET Value(f) ==
            IF f \notin missing THEN params[f]
            ELSE IF f = "collateralizationRatio" THEN 150
            ELSE 0
    IN [userCollateralAmount |-> Value("userCollateralAmount"),
        collateralPrice |-> Value("collateralPrice"),
        userAddress |-> Value("userAddress"),
        borrowAmount |-> Value("borrowAmount"),
        collateralizationRatio |-> Value("collateralizationRatio")]

\* The fields of the input object that are undefined.
Undefined(missing) == missing \ {"collateralizationRatio"}

ClientStart ==
    /\ \E arg \in CallArguments, missing \in ClientOmissions :
          BeginLogging("client", arg, missing,
                       [NoOutput EXCEPT !.input = <<ClientInput(arg[1], missing)>>])
    /\ pc' = "witness" /\ exit' = "running"
    /\ UNCHANGED <<diskVars, requestFiles>>

\* snarkjs.wtns.calculate(input, wasm, "./circuits/witness.wtns"): the witness
\* calculator throws on an undefined input (BigInt(undefined)).
ClientWitness ==
    /\ Running("client", "witness")
    /\ LET input == ClientInput(request.arg[1], request.missing)
       IN /\ reqInput' = <<input>>
          /\ IF ~Exists(wasmFile) \/ Undefined(request.missing) /= {}
             THEN Exit("error") /\ witnessFile' = witnessFile
             ELSE \E w \in CollateralCheck(input) :
                     IF w = NoFile
                     THEN Exit("error") /\ witnessFile' = witnessFile
                     ELSE Goto("prove") /\ witnessFile' = w
    /\ UNCHANGED <<diskVars, inputJson, proofJson, script, request, stdout, result>>

\* snarkjs.groth16.prove(final.zkey, "./circuits/witness.wtns"); the formatted
\* proof is returned.
ClientProve ==
    /\ Running("client", "prove")
    /\ IF Exists(zkeyFinal)
       THEN LET proof == Groth16Prove(zkeyFinal[1], witnessFile[1])
            IN /\ result' = [result EXCEPT !.proof = <<proof>>, !.returned = TRUE]
               /\ stdout' = [stdout EXCEPT !.publicSignals = <<proof.pub>>]
               /\ Exit("ok")
       ELSE result' = result /\ stdout' = stdout /\ Exit("error")
    /\ UNCHANGED <<diskVars, requestFiles, script, request, reqInput>>

(***************************************************************************)
(* DEPLOYMENT.md, debug commands: the operator verifies the proof on disk  *)
(* with `snarkjs groth16 verify verification_key.json public.json          *)
(* proof.json`.                                                            *)
(***************************************************************************)
VerifyCommand ==
    /\ Idle
    /\ script' = "verify" /\ stdout' = NoOutput /\ reqInput' = NoFile
    /\ request' = [NoRequest EXCEPT !.issued = proofJson]
    /\ Exists(vkeyBuild) /\ Exists(proofJson)
    /\ LET ok == ScriptVerify(vkeyBuild[1], proofJson[1])
       IN /\ result' = [NoResult EXCEPT !.verified = <<ok>>]
          /\ Exit(IF ok THEN "ok" ELSE "error")
    /\ UNCHANGED <<diskVars, requestFiles>>

(***************************************************************************)
(* The ledger: ZKLending with MockPriceOracle, the deployed verifier and   *)
(* the two ERC-20 tokens.  Amounts are whole tokens; uint256 arithmetic is *)
(* checked and never overflows within the bounds.  A user's own wallet and *)
(* allowance are the environment: a transferFrom out of it either succeeds *)
(* or fails.                                                               *)
(***************************************************************************)
MaxBalance == 2
MaxAmount == 1
MaxStable == 2

Amounts == 0..MaxAmount
Prices == (0 - 1)..MaxPrice

\* The record of a call: who called what with which amount, how it ended
\* (a revert reason, "ok", or the value a view returned), the proof and
\* public signals of a call that carried them to a verdict, and the token
\* transfers and the event of a transaction that went through.
Call(op, caller, amount, outcome) ==
    [op |-> op, caller |-> caller, amount |-> amount, outcome |-> outcome,
     proof |-> << >>, publicSignals |-> << >>,
     transfers |-> << >>, emitted |-> << >>]

\* address(this)
Ledger == 3

\* token.transfer(to, amount) by the ledger, or token.transferFrom(from, to,
\* amount) on behalf of the caller, that returned true.
Transfer(token, from, to, amount) ==
    [token |-> token, from |-> from, to |-> to, amount |-> amount]

\* emit Name(user, args...)
Event(name, user, args) == [name |-> name, user |-> user, args |-> args]

InitLedger ==
    /\ collateralBalance = [u \in Users |-> 0]
    /\ borrowBalance = [u \in Users |-> 0]
    /\ collateralizationRatio = 150
    /\ verifier = 1
    /\ oraclePrice = MaxPrice
    /\ oracleDecimals = 0
    /\ liquidationThreshold = 75
    /\ priceOracle = 1
    /\ stableHeld = 0 /\ collateralHeld = 0
    /\ lastCall = Call("constructor", 0, 0, "ok")

\* A reverted transaction: nothing but the record of the call changes.
Revert(op, caller, amount, reason) ==
    /\ lastCall' = Call(op, caller, amount, reason)
    /\ UNCHANGED <<balances, tokenVars, configVars>>

RECURSIVE Pow10(_)
Pow10(d) == IF d = 0 THEN 1 ELSE 10 * Pow10(d - 1)

\* MockPriceOracle.setPrice, by the oracle's owner.
setPrice ==
    \E p \in Prices :
        /\ oraclePrice' = p
        /\ lastCall' = Call("setPrice", 0, 0, "ok")
        /\ UNCHANGED <<balances, tokenVars, collateralizationRatio, verifier,
                       oracleDecimals, liquidationThreshold, priceOracle>>

\* Someone sends stable tokens to the ledger: stableToken.transfer(ledger, 1).
FundStable ==
    /\ stableHeld < MaxStable
    /\ stableHeld' = stableHeld + 1
    /\ lastCall' = Call("fund", 0, 1, "ok")
    /\ UNCHANGED <<balances, collateralHeld, configVars>>

\* Verifier.verifyProof(a, b, c, input) of the deployed verifier: Groth16
\* verification under the verification key it was exported with.
VerifierVerifyProof(proof, input) == Groth16Verify(verifier, input, proof)

\* getMaxBorrowable with its last division rounded up.
getMaxBorrowable_RoundsUp(user) ==
    LET collateralValue ==
            (collateralBalance[user] * oraclePrice) \div Pow10(oracleDecimals)
    IN (collateralValue * 100 + collateralizationRatio - 1)
           \div collateralizationRatio

\* getMaxBorrowable(user): the value returned once require(price > 0) has passed.
getMaxBorrowable(user) ==
    LET collateralValue ==
            (collateralBalance[user] * oraclePrice) \div Pow10(oracleDecimals)
    IN (collateralValue * 100) \div collateralizationRatio

\* require(price >= 0, ...)
PriceValid_NonNegative == oraclePrice >= 0

\* require(price > 0, "Invalid price") of the three functions that read the oracle.
PriceValid == oraclePrice > 0

\* isPositionSolvent(user, collateralAmount): "Invalid price" when it reverts.
isPositionSolvent(user, collateralAmount) ==
    IF borrowBalance[user] = 0 THEN "true"
    ELSE IF ~PriceValid THEN "Invalid price"
    ELSE LET collateralValue ==
                 (collateralAmount * oraclePrice) \div Pow10(oracleDecimals)
             requiredCollateral ==
                 (borrowBalance[user] * collateralizationRatio) \div 100
         IN IF collateralValue >= requiredCollateral THEN "true" ELSE "false"

\* depositCollateral with the balance set to the deposit instead of raised by it.
depositCollateral_OverwritesBalance(user, amount) ==
    IF amount = 0 THEN Revert("depositCollateral", user, amount, "amount=0")
    ELSE \/ Revert("depositCollateral", user, amount, "Transfer failed")
         \/ /\ collateralBalance[user] + amount <= MaxBalance
            /\ collateralBalance' = [collateralBalance EXCEPT ![user] = amount]
            /\ collateralHeld' = collateralHeld + amount
            /\ lastCall' = [Call("depositCollateral", user, amount, "ok") EXCEPT
                                !.transfers = <<Transfer("collateral", user, Ledger, amount)>>,
                                !.emitted = <<Event("Deposit", user, <<amount>>)>>]
            /\ UNCHANGED <<borrowBalance, stableHeld, configVars>>

depositCollateral(user, amount) ==
    IF amount = 0 THEN Revert("depositCollateral", user, amount, "amount=0")
    ELSE \/ Revert("depositCollateral", user, amount, "Transfer failed")
         \/ /\ collateralBalance[user] + amount <= MaxBalance
            /\ collateralBalance' = [collateralBalance EXCEPT ![user] = @ + amount]
            /\ collateralHeld' = collateralHeld + amount
            /\ lastCall' = [Call("depositCollateral", user, amount, "ok") EXCEPT
                                !.transfers = <<Transfer("collateral", user, Ledger, amount)>>,
                                !.emitted = <<Event("Deposit", user, <<amount>>)>>]
            /\ UNCHANGED <<borrowBalance, stableHeld, configVars>>

\* The proof checks without the comparison with msg.sender.
ProofChecks_NoUserCheck(user, amount, proof, publicSignals) ==
    IF ~VerifierVerifyProof(proof, publicSignals) THEN "Invalid ZK proof"
    ELSE IF Len(publicSignals) < 2 THEN "Invalid public signals"
    ELSE IF publicSignals[2] /= amount THEN "Borrow amount mismatch"
    ELSE "ok"

\* The proof checks of borrow: the verifier's verdict, then the public
\* signals against msg.sender and amount.
ProofChecks(user, amount, proof, publicSignals) ==
    IF ~VerifierVerifyProof(proof, publicSignals) THEN "Invalid ZK proof"
    ELSE IF Len(publicSignals) < 2 THEN "Invalid public signals"
    ELSE IF publicSignals[1] /= user THEN "User address mismatch"
    ELSE IF publicSignals[2] /= amount THEN "Borrow amount mismatch"
    ELSE "ok"

\* The requires of borrow without the borrowing limit.
BorrowChecks_NoLimit(user, amount, proof, publicSignals) ==
    IF amount = 0 THEN "amount=0"
    ELSE IF ~PriceValid THEN "Invalid price"
    ELSE IF ProofChecks(user, amount, proof, publicSignals) /= "ok"
        THEN ProofChecks(user, amount, proof, publicSignals)
    ELSE IF stableHeld < amount THEN "Transfer failed"
    ELSE "ok"

\* The requires of borrow with the borrowing limit read before the amount.
BorrowChecks_LimitFirst(user, amount, proof, publicSignals) ==
    IF ~PriceValid THEN "Invalid price"
    ELSE IF borrowBalance[user] + amount > getMaxBorrowable(user)
        THEN "Exceeds max borrowable"
    ELSE IF amount = 0 THEN "amount=0"
    ELSE IF ProofChecks(user, amount, proof, publicSignals) /= "ok"
        THEN ProofChecks(user, amount, proof, publicSignals)
    ELSE IF stableHeld < amount THEN "Transfer failed"
    ELSE "ok"

\* The requires of borrow in their order: the first that fails, or "ok".
BorrowChecks(user, amount, proof, publicSignals) ==
    IF amount = 0 THEN "amount=0"
    ELSE IF ~PriceValid THEN "Invalid price"
    ELSE IF borrowBalance[user] + amount > getMaxBorrowable(user)
        THEN "Exceeds max borrowable"
    ELSE IF ProofChecks(user, amount, proof, publicSignals) /= "ok"
        THEN ProofChecks(user, amount, proof, publicSignals)
    ELSE IF stableHeld < amount THEN "Transfer failed"
    ELSE "ok"

\* borrow with the debt set to the amount borrowed instead of raised by it.
borrow_OverwritesDebt(user, amount, proof, publicSignals) ==
    LET checks == BorrowChecks(user, amount, proof, publicSignals)
    IN IF checks /= "ok" THEN Revert("borrow", user, amount, checks)
       ELSE /\ borrowBalance' = [borrowBalance EXCEPT ![user] = amount]
            /\ stableHeld' = stableHeld - amount
            /\ lastCall' = [Call("borrow", user, amount, "ok") EXCEPT
                                !.proof = <<proof>>,
                                !.publicSignals = <<publicSignals>>,
                                !.transfers = <<Transfer("stable", Ledger, user, amount)>>,
                                !.emitted = <<Event("Borrow", user, <<amount, proof>>)>>]
            /\ UNCHANGED <<collateralBalance, collateralHeld, configVars>>

borrow(user, amount, proof, publicSignals) ==
    LET checks == BorrowChecks(user, amount, proof, publicSignals)
    IN IF checks /= "ok" THEN Revert("borrow", user, amount, checks)
       ELSE /\ borrowBalance' = [borrowBalance EXCEPT ![user] = @ + amount]
            /\ stableHeld' = stableHeld - amount
            /\ lastCall' = [Call("borrow", user, amount, "ok") EXCEPT
                                !.proof = <<proof>>,
                                !.publicSignals = <<publicSignals>>,
                                !.transfers = <<Transfer("stable", Ledger, user, amount)>>,
                                !.emitted = <<Event("Borrow", user, <<amount, proof>>)>>]
            /\ UNCHANGED <<collateralBalance, collateralHeld, configVars>>

\* repay without the comparison of the amount with the debt.
repay_AlwaysSubtracts(user, amount) ==
    IF amount = 0 THEN Revert("repay", user, amount, "amount=0")
    ELSE \/ Revert("repay", user, amount, "Transfer failed")
         \/ /\ stableHeld + amount <= MaxStable
            /\ stableHeld' = stableHeld + amount
            /\ borrowBalance' = [borrowBalance EXCEPT ![user] = @ - amount]
            /\ lastCall' = [Call("repay", user, amount, "ok") EXCEPT
                                !.transfers = <<Transfer("stable", user, Ledger, amount)>>,
                                !.emitted = <<Event("Repay", user, <<amount>>)>>]
            /\ UNCHANGED <<collateralBalance, collateralHeld, configVars>>

\* repay with the payment booked on account 1, whoever pays.
repay_CreditsFirstAccount(user, amount) ==
    IF amount = 0 THEN Revert("repay", user, amount, "amount=0")
    ELSE \/ Revert("repay", user, amount, "Transfer failed")
         \/ /\ stableHeld + amount <= MaxStable
            /\ stableHeld' = stableHeld + amount
            /\ borrowBalance' =
                  [borrowBalance EXCEPT
                      ![1] = IF amount >= @ THEN 0 ELSE @ - amount]
            /\ lastCall' = [Call("repay", user, amount, "ok") EXCEPT
                                !.transfers = <<Transfer("stable", user, Ledger, amount)>>,
                                !.emitted = <<Event("Repay", user, <<amount>>)>>]
            /\ UNCHANGED <<collateralBalance, collateralHeld, configVars>>

repay(user, amount) ==
    IF amount = 0 THEN Revert("repay", user, amount, "amount=0")
    ELSE \/ Revert("repay", user, amount, "Transfer failed")
         \/ /\ stableHeld + amount <= MaxStable
            /\ stableHeld' = stableHeld + amount
            /\ borrowBalance' =
                  [borrowBalance EXCEPT
                      ![user] = IF amount >= @ THEN 0 ELSE @ - amount]
            /\ lastCall' = [Call("repay", user, amount, "ok") EXCEPT
                                !.transfers = <<Transfer("stable", user, Ledger, amount)>>,
                                !.emitted = <<Event("Repay", user, <<amount>>)>>]
            /\ UNCHANGED <<collateralBalance, collateralHeld, configVars>>

\* The requires of withdrawCollateral without the solvency check.
WithdrawChecks_NoSolvencyCheck(user, amount) ==
    IF amount = 0 THEN "amount=0"
    ELSE IF amount > collateralBalance[user] THEN "Insufficient collateral"
    ELSE IF collateralHeld < amount THEN "Transfer failed"
    ELSE "ok"

\* The requires of withdrawCollateral in their order: the first that fails,
\* or "ok".
WithdrawChecks(user, amount) ==
    IF amount = 0 THEN "amount=0"
    ELSE IF amount > collateralBalance[user] THEN "Insufficient collateral"
    ELSE LET solvent == isPositionSolvent(user, collateralBalance[user] - amount)
         IN IF solvent = "Invalid price" THEN "Invalid price"
            ELSE IF solvent = "false" THEN "Position would become insolvent"
            ELSE IF collateralHeld < amount THEN "Transfer failed"
            ELSE "ok"

\* withdrawCollateral that sends the tokens and leaves the books as they were.
withdrawCollateral_KeepsBooks(user, amount) ==
    LET checks == WithdrawChecks(user, amount)
    IN IF checks /= "ok" THEN Revert("withdrawCollateral", user, amount, checks)
       ELSE /\ collateralHeld' = collateralHeld - amount
            /\ lastCall' = [Call("withdrawCollateral", user, amount, "ok") EXCEPT
                                !.transfers = <<Transfer("collateral", Ledger, user, amount)>>,
                                !.emitted = <<Event("Withdraw", user, <<amount>>)>>]
            /\ UNCHANGED <<balances, stableHeld, configVars>>

withdrawCollateral(user, amount) ==
    LET checks == WithdrawChecks(user, amount)
    IN IF checks /= "ok" THEN Revert("withdrawCollateral", user, amount, checks)
       ELSE /\ collateralBalance' = [collateralBalance EXCEPT ![user] = @ - amount]
            /\ collateralHeld' = collateralHeld - amount
            /\ lastCall' = [Call("withdrawCollateral", user, amount, "ok") EXCEPT
                                !.transfers = <<Transfer("collateral", Ledger, user, amount)>>,
                                !.emitted = <<Event("Withdraw", user, <<amount>>)>>]
            /\ UNCHANGED <<borrowBalance, stableHeld, configVars>>

\* The requires of liquidate without the solvency check.
LiquidateChecks_NoSolvencyCheck(user) ==
    IF collateralHeld < collateralBalance[user]
    THEN "Collateral transfer failed"
    ELSE "ok"

\* The requires of liquidate in their order: the first that fails, or "ok".
LiquidateChecks(user) ==
    LET solvent == isPositionSolvent(user, collateralBalance[user])
    IN IF solvent = "Invalid price" THEN "Invalid price"
       ELSE IF solvent = "true" THEN "Position is solvent"
       ELSE IF collateralHeld < collateralBalance[user]
           THEN "Collateral transfer failed"
       ELSE "ok"

\* liquidate with the debt left on the books.
liquidate_KeepsDebt(liquidator, user) ==
    LET checks == LiquidateChecks(user)
    IN IF checks /= "ok" THEN Revert("liquidate", liquidator, user, checks)
       ELSE \/ Revert("liquidate", liquidator, user, "Collateral transfer failed")
            \/ Revert("liquidate", liquidator, user, "Debt payment failed")
            \/ /\ stableHeld + borrowBalance[user] <= MaxStable
               /\ collateralBalance' = [collateralBalance EXCEPT ![user] = 0]
               /\ borrowBalance' = borrowBalance
               /\ collateralHeld' = collateralHeld - collateralBalance[user]
               /\ stableHeld' = stableHeld + borrowBalance[user]
               /\ lastCall' =
                     [Call("liquidate", liquidator, user, "ok") EXCEPT
                         !.transfers =
                             <<Transfer("collateral", Ledger, liquidator,
                                        collateralBalance[user]),
                               Transfer("stable", liquidator, Ledger,
                                        borrowBalance[user])>>,
                         !.emitted =
                             <<Event("Liquidation", user,
                                     <<collateralBalance[user], borrowBalance[user]>>)>>]
               /\ UNCHANGED configVars

\* lastCall.amount is the account liquidated.  Either token may refuse its
\* transfer, whatever the holdings.
liquidate(liquidator, user) ==
    LET checks == LiquidateChecks(user)
    IN IF checks /= "ok" THEN Revert("liquidate", liquidator, user, checks)
       ELSE \/ Revert("liquidate", liquidator, user, "Collateral transfer failed")
            \/ Revert("liquidate", liquidator, user, "Debt payment failed")
            \/ /\ stableHeld + borrowBalance[user] <= MaxStable
               /\ collateralBalance' = [collateralBalance EXCEPT ![user] = 0]
               /\ borrowBalance' = [borrowBalance EXCEPT ![user] = 0]
               /\ collateralHeld' = collateralHeld - collateralBalance[user]
               /\ stableHeld' = stableHeld + borrowBalance[user]
               /\ lastCall' =
                     [Call("liquidate", liquidator, user, "ok") EXCEPT
                         !.transfers =
                             <<Transfer("collateral", Ledger, liquidator,
                                        collateralBalance[user]),
                               Transfer("stable", liquidator, Ledger,
                                        borrowBalance[user])>>,
                         !.emitted =
                             <<Event("Liquidation", user,
                                     <<collateralBalance[user], borrowBalance[user]>>)>>]
               /\ UNCHANGED configVars

(***************************************************************************)
(* What a borrower can submit: the proofs the circuit yields for requests  *)
(* against full collateral, under the deployed key or another setup's key, *)
(* with the public signals of any of them or a truncated array.            *)
(***************************************************************************)
\* The key of the deployed verifier's setup run and the key of another run.
LedgerKeys == {1, 2}

LedgerRequests ==
    {in \in InputGrid :
        /\ in.userCollateralAmount = MaxCollateral
        /\ in.collateralPrice = MaxPrice
        /\ in.collateralizationRatio = 150
        /\ in.borrowAmount \in 1..2}

LedgerProofs ==
    {Groth16Prove(k, w[1]) :
        k \in LedgerKeys,
        w \in UNION {CollateralCheck(in) \ {NoFile} : in \in LedgerRequests}}

SignalArrays ==
    {p.pub : p \in LedgerProofs} \cup {SubSeq(p.pub, 1, 1) : p \in LedgerProofs}

\* The proofs tried in borrow: those made under the deployed verifier's key.
\* A proof under another key fails verification as a proof presented with
\* other public signals does; the adapter's calls try both keys.
BorrowProofs == {p \in LedgerProofs : p.key = verifier}

(***************************************************************************)
(* The admin functions of ZKLending.  onlyOwner is OpenZeppelin's Ownable: *)
(* the owner is the deployer, and a call by another account reverts with   *)
(* "Ownable: caller is not the owner".                                     *)
(***************************************************************************)
\* The deployer of the ledger.
Owner == 0

Accounts == Users \cup {Owner}

\* The oracle the ledger was deployed with and another one.
Oracles == {1, 2}

\* Arguments tried for the two percentages: below, at and above the bound.
RatioArguments == {99, 100, 150}

ThresholdArguments == {75, 100, 101}

NotOwner == "Ownable: caller is not the owner"

\* A setter that went through: the fields of the configuration that are not
\* named in `changed` stay as they are.
Configured(op, caller, argument) ==
    /\ lastCall' = Call(op, caller, argument, "ok")
    /\ UNCHANGED <<balances, tokenVars, oracleDecimals>>

\* setVerifier accepting every caller.
setVerifier_AnyCaller(caller, newVerifier) ==
    /\ verifier' = newVerifier
    /\ Configured("setVerifier", caller, newVerifier)
    /\ UNCHANGED <<collateralizationRatio, oraclePrice, liquidationThreshold,
                   priceOracle>>

setVerifier(caller, newVerifier) ==
    IF caller /= Owner
    THEN Revert("setVerifier", caller, newVerifier, NotOwner)
    ELSE /\ verifier' = newVerifier
         /\ Configured("setVerifier", caller, newVerifier)
         /\ UNCHANGED <<collateralizationRatio, oraclePrice, liquidationThreshold,
                        priceOracle>>

\* The ledger reads the new oracle from now on: the price it sees is that
\* oracle's latest price.
setPriceOracle(caller, oracle) ==
    IF caller /= Owner
    THEN Revert("setPriceOracle", caller, oracle, NotOwner)
    ELSE /\ priceOracle' = oracle
         /\ oraclePrice' \in (IF oracle = priceOracle THEN {oraclePrice} ELSE Prices)
         /\ Configured("setPriceOracle", caller, oracle)
         /\ UNCHANGED <<collateralizationRatio, verifier, liquidationThreshold>>

setCollateralizationRatio(caller, ratio) ==
    IF caller /= Owner
    THEN Revert("setCollateralizationRatio", caller, ratio, NotOwner)
    ELSE IF ratio < 100
    THEN Revert("setCollateralizationRatio", caller, ratio, "Ratio must be >= 100%")
    ELSE /\ collateralizationRatio' = ratio
         /\ Configured("setCollateralizationRatio", caller, ratio)
         /\ UNCHANGED <<verifier, oraclePrice, liquidationThreshold, priceOracle>>

setLiquidationThreshold(caller, threshold) ==
    IF caller /= Owner
    THEN Revert("setLiquidationThreshold", caller, threshold, NotOwner)
    ELSE IF threshold > 100
    THEN Revert("setLiquidationThreshold", caller, threshold,
                "Threshold must be <= 100%")
    ELSE /\ liquidationThreshold' = threshold
         /\ Configured("setLiquidationThreshold", caller, threshold)
         /\ UNCHANGED <<collateralizationRatio, verifier, oraclePrice, priceOracle>>

(***************************************************************************)
(* VerifierAdapter: two view functions over the deployed verifier.         *)
(***************************************************************************)
\* The adapter passing on the proof without the caller's input.
AdapterVerifyProof_IgnoresInput(proof, input) == VerifierVerifyProof(proof, proof.pub)

\* return verifier.verifyProof(a, b, c, input)
AdapterVerifyProof(proof, input) == VerifierVerifyProof(proof, input)

\* The validation also asking that the ledger holds the amount.
AdapterVerifyProofWithValidation_ChecksLiquidity(proof, input, expectedUser, expectedAmount) ==
    /\ VerifierVerifyProof(proof, input)
    /\ Len(input) >= 2
    /\ input[1] = expectedUser
    /\ input[2] = expectedAmount
    /\ stableHeld >= expectedAmount

\* verifyProofWithValidation without the comparison of input[1] with the amount.
AdapterVerifyProofWithValidation_NoAmountCheck(proof, input, expectedUser, expectedAmount) ==
    IF ~VerifierVerifyProof(proof, input) THEN FALSE
    ELSE IF Len(input) < 2 THEN FALSE
    ELSE IF input[1] /= expectedUser THEN FALSE
    ELSE TRUE

\* verifyProofWithValidation: the verifier's verdict, then the first two
\* public signals against the expected user and amount.
AdapterVerifyProofWithValidation(proof, input, expectedUser, expectedAmount) ==
    IF ~VerifierVerifyProof(proof, input) THEN FALSE
    ELSE IF Len(input) < 2 THEN FALSE
    ELSE IF input[1] /= expectedUser THEN FALSE
    ELSE IF input[2] /= expectedAmount THEN FALSE
    ELSE TRUE

Answer(b) == IF b THEN "true" ELSE "false"

verifyProof(proof, input) ==
    /\ lastCall' = [Call("verifyProof", 0, 0, Answer(AdapterVerifyProof(proof, input)))
                        EXCEPT !.proof = <<proof>>, !.publicSignals = <<input>>]
    /\ UNCHANGED <<balances, tokenVars, configVars>>

verifyProofWithValidation(proof, input, expectedUser, expectedAmount) ==
    /\ lastCall' =
          [Call("verifyProofWithValidation", expectedUser, expectedAmount,
                Answer(AdapterVerifyProofWithValidation(
                           proof, input, expectedUser, expectedAmount)))
              EXCEPT !.proof = <<proof>>, !.publicSignals = <<input>>]
    /\ UNCHANGED <<balances, tokenVars, configVars>>

VerifierNext ==
    \/ \E proof \in LedgerProofs, input \in SignalArrays : verifyProof(proof, input)
    \/ \E proof \in LedgerProofs, input \in SignalArrays,
          expectedUser \in Users, expectedAmount \in Amounts :
            verifyProofWithValidation(proof, input, expectedUser, expectedAmount)

LedgerNext ==
    \/ setPrice
    \/ FundStable
    \/ \E u \in Users, amount \in Amounts : depositCollateral(u, amount)
    \/ \E u \in Users, amount \in Amounts, proof \in BorrowProofs,
          publicSignals \in SignalArrays :
            borrow(u, amount, proof, publicSignals)
    \/ \E u \in Users, amount \in Amounts : repay(u, amount)
    \/ \E u \in Users, amount \in Amounts : withdrawCollateral(u, amount)
    \/ \E liquidator \in Users, u \in Users : liquidate(liquidator, u)

(***************************************************************************)
(* Specifications.                                                         *)
(***************************************************************************)
SetupScript ==
    \/ SetupStart \/ SetupCheckR1cs \/ SetupPot
    \/ SetupPhase1 \/ SetupContribute \/ SetupExportVk

GenerateProofScript ==
    \/ GPStart \/ GPCheck \/ GPWitness \/ GPProve \/ GPVerify \/ GPReport

GenerateProofModule ==
    \/ GenStart \/ GenRead \/ GenWitness \/ GenProve \/ GenVerify

GenerateBorrowProof ==
    \/ ClientStart \/ ClientWitness \/ ClientProve

PipelineNext ==
    \/ CompileCircuit
    \/ SetupScript
    \/ ExportVerifier
    \/ WriteInput
    \/ InstallVerificationKey
    \/ InstallWasm
    \/ GenerateProofScript
    \/ GenerateProofModule
    \/ GenerateBorrowProof
    \/ VerifyCommand

\* The pipeline from an empty build directory.
Init == InitPipeline /\ InitLedger

Next == PipelineNext /\ UNCHANGED <<ledgerVars, sideVars>>

Spec == Init /\ [][Next]_vars

\* The disk as compile, setup and export-verifier leave it, with the wasm
\* copied to where the proof scripts look for it.
InitAfterSetup ==
    /\ r1csFile = <<"r1cs">> /\ wasmFile = <<"wasm">> /\ wasmJsDir = <<"wasm">>
    /\ potFile = <<"ptau">>
    /\ zkey0000 = <<0>> /\ zkeyFinal = <<1>> /\ vkeyBuild = <<1>>
    /\ vkeyCircuits = NoFile /\ verifierSol = <<1>>
    /\ setupRuns = 1

\* Proof requests over the whole input grid: one input.json per behaviour,
\* and the generate-proof script.
InitCircuit ==
    /\ InitAfterSetup
    /\ inputJson \in {<<in>> : in \in InputGrid}
    /\ witnessFile = NoFile /\ proofJson = NoFile
    /\ InitRun
    /\ InitLedger

CircuitNext == GenerateProofScript /\ UNCHANGED <<ledgerVars, sideVars>>

CircuitSpec == InitCircuit /\ [][CircuitNext]_vars

\* Collateral amounts at which the circuit's products leave the field: 1 (none
\* does), the least amount whose value times 100 reaches the prime, and the
\* least whose value at price 2 does.
WideAmounts == {1, (FieldPrime \div 100) + 1, (FieldPrime + 1) \div 2}

WideGrid ==
    [userCollateralAmount : WideAmounts,
     collateralPrice : {1, 2},
     userAddress : Users,
     borrowAmount : 0..MaxBorrow,
     collateralizationRatio : {100, 150}]

\* Proof requests whose inputs are each below the prime, over the wide grid.
InitRange ==
    /\ InitAfterSetup
    /\ inputJson \in {<<in>> : in \in WideGrid}
    /\ witnessFile = NoFile /\ proofJson = NoFile
    /\ InitRun
    /\ InitLedger

RangeSpec == InitRange /\ [][CircuitNext]_vars

\* The ledger, deployed with the verifier of the first setup.
InitDeployed ==
    /\ InitAfterSetup
    /\ inputJson = NoFile /\ witnessFile = NoFile /\ proofJson = NoFile
    /\ InitRun
    /\ InitLedger

LedgerStep == LedgerNext /\ UNCHANGED pipelineVars

LedgerSpec == InitDeployed /\ [][LedgerStep]_vars

\* The ledger's bookkeeping: the calls of LedgerNext, with every borrow made
\* as the client makes it, a proof presented with its own public signals.
AccountNext ==
    \/ setPrice
    \/ FundStable
    \/ \E u \in Users, amount \in Amounts : depositCollateral(u, amount)
    \/ \E u \in Users, amount \in Amounts, proof \in BorrowProofs :
            borrow(u, amount, proof, proof.pub)
    \/ \E u \in Users, amount \in Amounts : repay(u, amount)
    \/ \E u \in Users, amount \in Amounts : withdrawCollateral(u, amount)
    \/ \E liquidator \in Users, u \in Users : liquidate(liquidator, u)

AccountStep == AccountNext /\ UNCHANGED pipelineVars

AccountSpec == InitDeployed /\ [][AccountStep]_vars

\* The owner administers the ledger while account 1 uses it and account 2
\* liquidates.
AdminNext ==
    \/ \E caller \in Accounts, newVerifier \in LedgerKeys :
            setVerifier(caller, newVerifier)
    \/ \E caller \in Accounts, oracle \in Oracles : setPriceOracle(caller, oracle)
    \/ \E caller \in Accounts, ratio \in RatioArguments :
            setCollateralizationRatio(caller, ratio)
    \/ \E caller \in Accounts, threshold \in ThresholdArguments :
            setLiquidationThreshold(caller, threshold)
    \/ FundStable
    \/ \E amount \in Amounts : depositCollateral(1, amount)
    \/ \E amount \in Amounts, proof \in BorrowProofs :
            borrow(1, amount, proof, proof.pub)
    \/ \E amount \in Amounts : repay(1, amount)
    \/ \E amount \in Amounts : withdrawCollateral(1, amount)
    \/ liquidate(2, 1)

AdminStep == AdminNext /\ UNCHANGED pipelineVars

AdminSpec == InitDeployed /\ [][AdminStep]_vars

\* The adapter over the verifier exported from any of the setups.
InitVerifier ==
    /\ InitAfterSetup
    /\ inputJson = NoFile /\ witnessFile = NoFile /\ proofJson = NoFile
    /\ InitRun
    /\ collateralBalance = [u \in Users |-> 0]
    /\ borrowBalance = [u \in Users |-> 0]
    /\ collateralizationRatio = 150
    /\ verifier \in LedgerKeys
    /\ oraclePrice = MaxPrice /\ oracleDecimals = 0
    /\ liquidationThreshold = 75 /\ priceOracle = 1
    /\ stableHeld = 0 /\ collateralHeld = 0
    /\ lastCall = Call("constructor", 0, 0, "ok")

\* Calls of the adapter, with transfers to the ledger between them.
VerifierStep == (VerifierNext \/ FundStable) /\ UNCHANGED pipelineVars

VerifierSpec == InitVerifier /\ [][VerifierStep]_vars

(***************************************************************************)
(* Two calls of ZKLendingClient.generateBorrowProof in flight at once.     *)
(* Each holds its input object in memory; both name the one file           *)
(* ./circuits/witness.wtns.  A call yields at each await.                  *)
(***************************************************************************)
Procs == {1, 2}

\* The input objects the two calls are made with.
RaceInputs ==
    {in \in InputGrid :
        /\ in.collateralPrice = 1 /\ in.borrowAmount = 1
        /\ in.userCollateralAmount \in 1..MaxCollateral
        /\ in.collateralizationRatio \in {0, 150}}

\* await snarkjs.wtns.calculate(input, wasm, "./circuits/witness.wtns")
RequestWitness(i) ==
    /\ procs[i].pc = "witness"
    /\ \E w \in CollateralCheck(procs[i].input[1]) :
          IF w = NoFile
          THEN /\ procs' = [procs EXCEPT ![i].pc = "failed"]
               /\ witnessFile' = witnessFile
          ELSE /\ procs' = [procs EXCEPT ![i].pc = "prove"]
               /\ witnessFile' = w
    /\ UNCHANGED <<diskVars, inputJson, proofJson, runVars, wire, entry>>

\* await snarkjs.groth16.prove(final.zkey, "./circuits/witness.wtns")
RequestProve(i) ==
    /\ procs[i].pc = "prove"
    /\ procs' = [procs EXCEPT
                    ![i].pc = "done",
                    ![i].proof = <<Groth16Prove(zkeyFinal[1], witnessFile[1])>>]
    /\ UNCHANGED <<diskVars, requestFiles, runVars, wire, entry>>

\* Two calls with different inputs, after setup.
InitProofRace ==
    /\ InitAfterSetup
    /\ inputJson = NoFile /\ witnessFile = NoFile /\ proofJson = NoFile
    /\ InitIdle
    /\ \E a \in RaceInputs : \E b \in RaceInputs \ {a} :
          procs = [i \in Procs |->
                     [NoProc EXCEPT !.pc = "witness",
                                    !.input = IF i = 1 THEN <<a>> ELSE <<b>>]]
    /\ wire = NoWire
    /\ InitLedger

ProofRaceNext ==
    /\ \E i \in Procs : RequestWitness(i) \/ RequestProve(i)
    /\ UNCHANGED ledgerVars

ProofRaceSpec == InitProofRace /\ [][ProofRaceNext]_vars

(***************************************************************************)
(* Two runs of scripts/setup-circuit.js at the same time.  Within a run    *)
(* execSync makes the commands sequential; between the runs nothing does.  *)
(* A snarkjs command is not atomic: it reads its input and creates its     *)
(* output file when it starts, and the output is complete when it ends.    *)
(* The script takes no lock and writes no temporary file.                  *)
(***************************************************************************)
\* File contents that are no key: a file created and not (yet) completed,
\* and a file that holds parts of what two commands wrote.
Torn == 0 - 1

Mixed == 0 - 2

Other(i) == 3 - i

\* The file a command in progress writes, and the file it reads.
Writes(at) ==
    CASE at = "phase1w" -> "zkey0000"
      [] at = "contributew" -> "zkeyFinal"
      [] at = "exportw" -> "vkeyBuild"
      [] OTHER -> "none"

Reads(at) ==
    CASE at = "contributew" -> "zkey0000"
      [] at = "exportw" -> "zkeyFinal"
      [] OTHER -> "none"

\* Run i starts a command that writes `out`: the other run's command in
\* progress races with it if it writes or reads that file.
RaceBegin(i, at, out, key) ==
    procs' = [procs EXCEPT
                 ![i].pc = at,
                 ![i].key = key,
                 ![i].overlap = (Writes(procs[Other(i)].pc) = out),
                 ![Other(i)].overlap =
                     @ \/ Writes(procs[Other(i)].pc) = out
                       \/ Reads(procs[Other(i)].pc) = out]

\* Run i cannot read `file`: it is absent, cut short, or being written.
Unreadable(i, name, file) ==
    \/ ~Exists(file)
    \/ file = <<Torn>>
    \/ Writes(procs[Other(i)].pc) = name

\* execSync throws, the catch block calls process.exit(1).
RaceFail(i) == procs' = [procs EXCEPT ![i].pc = "failed", ![i].overlap = FALSE]

\* What a command leaves in its output file when it ends: its own content,
\* or, if it raced, possibly a mixture or a file cut short.
RaceOutcomes(i) ==
    IF procs[i].overlap THEN {procs[i].key, Mixed, Torn} ELSE {procs[i].key}

\* The run goes on after a complete write, and exits 1 after a failed one.
RaceEnd(i, content, next) ==
    procs' = [procs EXCEPT
                 ![i].pc = IF content = Torn THEN "failed" ELSE next,
                 ![i].overlap = FALSE]

\* if (!fs.existsSync(r1csFile)) ...; if (!fs.existsSync(potFile)) ...
RaceCheck(i) ==
    /\ procs[i].pc = "check"
    /\ IF Exists(r1csFile) /\ potFile = <<"ptau">>
       THEN procs' = [procs EXCEPT ![i].pc = "phase1"]
       ELSE RaceFail(i)
    /\ UNCHANGED <<diskVars, requestFiles, runVars, wire, entry>>

\* snarkjs groth16 setup r1cs ptau collateral_check_0000.zkey
RacePhase1Begin(i) ==
    /\ procs[i].pc = "phase1"
    /\ RaceBegin(i, "phase1w", "zkey0000", 0)
    /\ zkey0000' = <<Torn>>
    /\ UNCHANGED <<r1csFile, wasmFile, wasmJsDir, potFile, zkeyFinal, vkeyBuild,
                   vkeyCircuits, verifierSol, setupRuns, requestFiles, runVars, wire, entry>>

RacePhase1End(i) ==
    /\ procs[i].pc = "phase1w"
    /\ \E content \in RaceOutcomes(i) :
          /\ zkey0000' = <<content>>
          /\ RaceEnd(i, content, "contribute")
    /\ UNCHANGED <<r1csFile, wasmFile, wasmJsDir, potFile, zkeyFinal, vkeyBuild,
                   vkeyCircuits, verifierSol, setupRuns, requestFiles, runVars, wire, entry>>

\* snarkjs zkey contribute 0000.zkey final.zkey
RaceContributeBegin(i) ==
    /\ procs[i].pc = "contribute"
    /\ IF Unreadable(i, "zkey0000", zkey0000) \/ zkey0000 = <<Mixed>>
       THEN RaceFail(i) /\ UNCHANGED <<zkeyFinal, setupRuns>>
       ELSE /\ RaceBegin(i, "contributew", "zkeyFinal", setupRuns + 1)
            /\ setupRuns' = setupRuns + 1
            /\ zkeyFinal' = <<Torn>>
    /\ UNCHANGED <<r1csFile, wasmFile, wasmJsDir, potFile, zkey0000, vkeyBuild,
                   vkeyCircuits, verifierSol, requestFiles, runVars, wire, entry>>

RaceContributeEnd(i) ==
    /\ procs[i].pc = "contributew"
    /\ \E content \in RaceOutcomes(i) :
          /\ zkeyFinal' = <<content>>
          /\ RaceEnd(i, content, "export")
    /\ UNCHANGED <<r1csFile, wasmFile, wasmJsDir, potFile, zkey0000, vkeyBuild,
                   vkeyCircuits, verifierSol, setupRuns, requestFiles, runVars, wire, entry>>

\* snarkjs zkey export verificationkey final.zkey verification_key.json
RaceExportBegin(i) ==
    /\ procs[i].pc = "export"
    /\ IF Unreadable(i, "zkeyFinal", zkeyFinal)
       THEN RaceFail(i) /\ vkeyBuild' = vkeyBuild
       ELSE /\ RaceBegin(i, "exportw", "vkeyBuild", zkeyFinal[1])
            /\ vkeyBuild' = <<Torn>>
    /\ UNCHANGED <<r1csFile, wasmFile, wasmJsDir, potFile, zkey0000, zkeyFinal,
                   vkeyCircuits, verifierSol, setupRuns, requestFiles, runVars, wire, entry>>

RaceExportEnd(i) ==
    /\ procs[i].pc = "exportw"
    /\ \E content \in RaceOutcomes(i) :
          /\ vkeyBuild' = <<content>>
          /\ RaceEnd(i, content, "done")
    /\ UNCHANGED <<r1csFile, wasmFile, wasmJsDir, potFile, zkey0000, zkeyFinal,
                   vkeyCircuits, verifierSol, setupRuns, requestFiles, runVars, wire, entry>>

SetupRun(i) ==
    \/ RaceCheck(i)
    \/ RacePhase1Begin(i) \/ RacePhase1End(i)
    \/ RaceContributeBegin(i) \/ RaceContributeEnd(i)
    \/ RaceExportBegin(i) \/ RaceExportEnd(i)

\* Two runs started on a compiled circuit with the SRS in place.
InitSetupRace ==
    /\ r1csFile = <<"r1cs">> /\ wasmFile = <<"wasm">> /\ wasmJsDir = <<"wasm">>
    /\ potFile = <<"ptau">>
    /\ zkey0000 = NoFile /\ zkeyFinal = NoFile
    /\ vkeyBuild = NoFile /\ vkeyCircuits = NoFile /\ verifierSol = NoFile
    /\ setupRuns = 0
    /\ inputJson = NoFile /\ witnessFile = NoFile /\ proofJson = NoFile
    /\ InitIdle
    /\ procs = [i \in Procs |-> [NoProc EXCEPT !.pc = "check"]]
    /\ wire = NoWire
    /\ InitLedger

SetupRaceNext ==
    /\ \E i \in Procs : SetupRun(i)
    /\ UNCHANGED ledgerVars

SetupRaceSpec == InitSetupRace /\ [][SetupRaceNext]_vars

(***************************************************************************)
(* A proof on its way out of snarkjs: to circuits/proof.json and back, and *)
(* in the a/b/c form to the ledger's verifier.  A proof is three curve     *)
(* points: pi_a and pi_c in G1 (two coordinates), pi_b in G2 (two          *)
(* coordinates in Fp2, each a pair <<c0, c1>>).  snarkjs holds a           *)
(* coordinate as a decimal string, here the sequence of its digits.        *)
(***************************************************************************)
Coords == {0, MaxCoord - 1, MaxCoord}

G1Points == Coords \X Coords

G2Points == (Coords \X Coords) \X (Coords \X Coords)

Proofs == [pi_a : G1Points, pi_b : G2Points, pi_c : G1Points]

\* BigInt.prototype.toString(10)
RECURSIVE Digits(_)
Digits(n) == IF n < 10 THEN <<n>> ELSE Append(Digits(n \div 10), n % 10)

\* BigInt(string) / BigNumber.from(string)
RECURSIVE Value(_)
Value(ds) ==
    IF Len(ds) = 1 THEN ds[1]
    ELSE 10 * Value(SubSeq(ds, 1, Len(ds) - 1)) + ds[Len(ds)]

\* The proof object snarkjs.groth16.prove returns: projective coordinates
\* with the last one 1, as decimal strings.
ProofObject(p) ==
    [pi_a |-> <<Digits(p.pi_a[1]), Digits(p.pi_a[2]), Digits(1)>>,
     pi_b |-> <<<<Digits(p.pi_b[1][1]), Digits(p.pi_b[1][2])>>,
                <<Digits(p.pi_b[2][1]), Digits(p.pi_b[2][2])>>,
                <<Digits(1), Digits(0)>> >>,
     pi_c |-> <<Digits(p.pi_c[1]), Digits(p.pi_c[2]), Digits(1)>>]

\* JSON.stringify(proof, null, 2): the strings of the object in key order.
Stringify(obj) ==
    obj.pi_a
    \o obj.pi_b[1] \o obj.pi_b[2] \o obj.pi_b[3]
    \o obj.pi_c

\* JSON.parse(text)
Parse(text) ==
    [pi_a |-> SubSeq(text, 1, 3),
     pi_b |-> <<SubSeq(text, 4, 5), SubSeq(text, 6, 7), SubSeq(text, 8, 9)>>,
     pi_c |-> SubSeq(text, 10, 12)]

\* The points a proof object stands for.
PointsOf(obj) ==
    [pi_a |-> <<Value(obj.pi_a[1]), Value(obj.pi_a[2])>>,
     pi_b |-> <<<<Value(obj.pi_b[1][1]), Value(obj.pi_b[1][2])>>,
                <<Value(obj.pi_b[2][1]), Value(obj.pi_b[2][2])>> >>,
     pi_c |-> <<Value(obj.pi_c[1]), Value(obj.pi_c[2])>>]

\* const formattedProof = { a: [...], b: [[...], [...]], c: [...] }
FormatProof(obj) ==
    [a |-> <<obj.pi_a[1], obj.pi_a[2]>>,
     b |-> <<<<obj.pi_b[1][1], obj.pi_b[1][2]>>,
             <<obj.pi_b[2][1], obj.pi_b[2][2]>> >>,
     c |-> <<obj.pi_c[1], obj.pi_c[2]>>]

\* The verifier snarkjs exports takes b in the order of the pairing
\* precompile, each Fp2 coordinate as [c1, c0]: the points it computes with.
VerifierPoints(a, b, c) ==
    [pi_a |-> <<Value(a[1]), Value(a[2])>>,
     pi_b |-> <<<<Value(b[1][2]), Value(b[1][1])>>,
                <<Value(b[2][2]), Value(b[2][1])>> >>,
     pi_c |-> <<Value(c[1]), Value(c[2])>>]

\* fs.writeFileSync("circuits/proof.json", JSON.stringify(proof, null, 2))
WriteProofJson ==
    /\ wire.json = << >>
    /\ wire' = [wire EXCEPT !.json = <<Stringify(ProofObject(wire.proof[1]))>>]
    /\ UNCHANGED <<diskVars, requestFiles, runVars, procs, entry>>

\* const proof = JSON.parse(fs.readFileSync(".../proof.json", "utf8"))
ReadProofJson ==
    /\ wire.json /= << >> /\ wire.parsed = << >>
    /\ wire' = [wire EXCEPT !.parsed = <<Parse(wire.json[1])>>]
    /\ UNCHANGED <<diskVars, requestFiles, runVars, procs, entry>>

\* generateBorrowProof returns the formatted proof; borrow passes a, b, c on.
SendProof ==
    /\ wire.calldata = << >>
    /\ wire' = [wire EXCEPT !.calldata = <<FormatProof(ProofObject(wire.proof[1]))>>]
    /\ UNCHANGED <<diskVars, requestFiles, runVars, procs, entry>>

\* verifier.verifyProof(a, b, c, input) reads the three points.
ReceiveProof ==
    /\ wire.calldata /= << >> /\ wire.decoded = << >>
    /\ LET sent == wire.calldata[1]
       IN wire' = [wire EXCEPT !.decoded = <<VerifierPoints(sent.a, sent.b, sent.c)>>]
    /\ UNCHANGED <<diskVars, requestFiles, runVars, procs, entry>>

\* One proof out of the prover, any proof.
InitWire ==
    /\ InitAfterSetup
    /\ inputJson = NoFile /\ witnessFile = NoFile /\ proofJson = NoFile
    /\ InitIdle
    /\ procs = [i \in Procs |-> NoProc]
    /\ wire \in {[NoWire EXCEPT !.proof = <<p>>] : p \in Proofs}
    /\ InitLedger

WireNext ==
    /\ WriteProofJson \/ ReadProofJson \/ SendProof \/ ReceiveProof
    /\ UNCHANGED ledgerVars

WireSpec == InitWire /\ [][WireNext]_vars

(***************************************************************************)
(* The solvency relation over the integers, as the claims state it.        *)
(***************************************************************************)
Solvent(in) ==
    in.borrowAmount * in.collateralizationRatio
        <= in.userCollateralAmount * in.collateralPrice * 100

\* The request in progress has read this input.
Requested == IF Exists(reqInput) THEN {reqInput[1]} ELSE {}

\* C1: for every input tuple with borrowAmount * collateralizationRatio >
\* userCollateralAmount * collateralPrice * 100, witness generation fails: the
\* generate-proof script never reaches its prove step and no proof of the
\* tuple is on disk.  (The code does not enforce it.)
C1_UnsatisfiableInputHasNoProof ==
    \A in \in Requested :
        (script = "generate-proof" /\ ~Solvent(in)) =>
            /\ pc \notin {"prove", "verify", "report"}
            /\ exit /= "ok"

C5_MaxBorrowableIsFloor ==
    \A in \in Requested :
        (/\ script = "generate-proof" /\ pc \in {"prove", "verify", "report"}
         /\ in.collateralizationRatio > 0) =>
            LET w == witnessFile[1]
                r == w.collateralValue * 100 - w.maxBorrowable * in.collateralizationRatio
            IN /\ w.maxBorrowable =
                    (in.userCollateralAmount * in.collateralPrice * 100)
                        \div in.collateralizationRatio
               /\ 0 <= r /\ r < in.collateralizationRatio

\* C8: two proof requests with the same userAddress and borrowAmount and
\* different private userCollateralAmount or collateralPrice, both satisfying
\* the relation, have identical public signals.  (The code publishes
\* collateralValue and maxBorrowable.)
C8_PublicSignalsHidePrivateInputs ==
    \A in \in Requested :
        (script = "generate-proof" /\ exit = "ok" /\ Solvent(in)) =>
            \A other \in InputGrid :
                (/\ other.userAddress = in.userAddress
                 /\ other.borrowAmount = in.borrowAmount
                 /\ other.collateralizationRatio = in.collateralizationRatio
                 /\ Solvent(other)) =>
                    \A w \in CollateralCheck(other) :
                        w /= NoFile => PublicSignals(w[1]) = proofJson[1].pub

(***************************************************************************)
(* Claims about the pipeline (Spec).                                       *)
(***************************************************************************)
ProofRequest == script \in {"generate-proof", "generateProof"}

\* C6: a proof made with the proving key of one setup run is rejected by
\* verification under the verification key of a different setup run, in the
\* generate-proof script, in the verify command and in generateProof.
C6_KeyMismatchIsRejected ==
    /\ (/\ script \in {"generate-proof", "verify"}
        /\ result.verified /= << >>
        /\ proofJson[1].key /= vkeyBuild[1]) =>
            result.verified = <<FALSE>> /\ exit = "error"
    /\ (/\ script = "generateProof"
        /\ result.verified /= << >>
        /\ result.proof[1].key /= vkeyCircuits[1]) =>
            result.verified = <<FALSE>>

\* A proof of the first setup run, on disk, is verified under the key of the second.
C6_Witness ==
    /\ script = "verify" /\ pc = "exited"
    /\ proofJson[1].key = 1 /\ vkeyBuild = <<2>>
    /\ result.verified = <<FALSE>>

\* C7: after a proof request has finished, successfully or not, no witness
\* file is on disk and the private inputs have not been written to the log.
\* (The code keeps witness.wtns, and generateProof logs its input.)
C7_WitnessAndInputsNotKept ==
    (ProofRequest /\ pc = "exited") =>
        /\ witnessFile = NoFile
        /\ stdout.input = NoFile

\* C9: whenever verification of a proof returns false, the proof-generation
\* entry point that asked for it fails: it does not exit 0 and does not return
\* the proof.  (generateProof logs isValid and returns the proof.)
C9_FailedVerificationIsRejected ==
    (ProofRequest /\ pc = "exited" /\ result.verified = <<FALSE>>) =>
        /\ exit = "error"
        /\ ~result.returned

ReadsPrice(call) ==
    \/ call.op = "borrow" /\ call.amount > 0
    \/ /\ call.op = "withdrawCollateral"
       /\ call.amount > 0 /\ call.amount <= collateralBalance[call.caller]
       /\ borrowBalance[call.caller] > 0
    \/ call.op = "liquidate" /\ borrowBalance[call.amount] > 0

C10_NonPositivePriceIsRejected ==
    [][(oraclePrice <= 0 /\ ReadsPrice(lastCall')) =>
          /\ lastCall'.outcome = "Invalid price"
          /\ UNCHANGED <<balances, tokenVars>>]_vars

C10_Witness ==
    /\ oraclePrice <= 0
    /\ lastCall.op = "liquidate" /\ lastCall.outcome = "Invalid price"
    /\ borrowBalance[lastCall.amount] > 0

C11_IssuedKeyPairIsNeverReplaced ==
    /\ Exists(zkeyFinal) => zkeyFinal = <<1>>
    /\ Exists(vkeyBuild) => vkeyBuild = <<1>>

\* C13: a failed fetch of the Powers of Tau file ends the setup script with an
\* error before any key is generated, and leaves no partial or empty file: the
\* file on disk is always a complete download, so that a later run fetches it
\* again.  (wget -O leaves the empty file, which the next run takes for the
\* download.)
C13_FailedFetchLeavesNoFile ==
    /\ Exists(potFile) => potFile = <<"ptau">>
    /\ (script = "setup" /\ pc = "phase1") => potFile = <<"ptau">>

(***************************************************************************)
(* Claims about one proof request (Spec).                                  *)
(***************************************************************************)
\* C15: a proof request that has failed (at witness generation, proving or
\* local verification) has left proof.json and public.json as they were when
\* it started.  (generateProof writes them before it verifies.)
C15_FailedRequestLeavesArtifacts ==
    (/\ script \in {"generate-proof", "generateProof", "client"}
     /\ pc = "exited" /\ exit = "error") =>
        proofJson = request.issued

\* C16: a proof request in which a required circuit input is absent never
\* reaches the prove step and ends with an error; no proof is returned for it.
\* (generateBorrowProof gives an absent collateralizationRatio the value 150.)
C16_AbsentInputIsRejected ==
    (script = "client" /\ request.missing /= {}) =>
        /\ pc /= "prove"
        /\ pc = "exited" => exit = "error"
        /\ ~result.returned

\* C20: the proof generateProof returns to a caller that passed it an input
\* object has the public signals of that object.  (generateProof reads
\* circuits/input.json whatever it is passed.)
C20_ProofIsOfThePassedInput ==
    (script = "generateProof" /\ Exists(request.arg) /\ result.returned) =>
        \E w \in CollateralCheck(request.arg[1]) \ {NoFile} :
            result.proof[1].pub = PublicSignals(w[1])

(***************************************************************************)
(* Claims about the field arithmetic (RangeSpec).                          *)
(***************************************************************************)
\* One of the circuit's products, taken over the integers, reaches the prime.
Overflows(in) ==
    \/ in.userCollateralAmount * in.collateralPrice >= FieldPrime
    \/ in.userCollateralAmount * in.collateralPrice * 100 >= FieldPrime
    \/ in.borrowAmount * in.collateralizationRatio >= FieldPrime

\* C17: witness generation rejects an input one of whose products reaches the
\* field modulus: the generate-proof script does not reach its prove step with
\* it and does not succeed.  (The circuit has no range check: the products
\* wrap and the witness is generated.)
C17_OverflowingInputIsRejected ==
    \A in \in Requested :
        (script = "generate-proof" /\ Overflows(in)) =>
            /\ pc \notin {"prove", "verify", "report"}
            /\ exit /= "ok"

(***************************************************************************)
(* Claims about the adapter's calls (VerifierSpec).                        *)
(***************************************************************************)
VerifierCalls == {"verifyProof", "verifyProofWithValidation"}

\* C18: verification is a pure function of its arguments.  A verification call
\* changes no state and returns the answer of the function to its arguments;
\* and no other call changes the answer that verifyProof or
\* verifyProofWithValidation gives to any arguments.  So two calls with the
\* same arguments return the same result whatever is called between them.
C18_VerificationIsPure ==
    [][IF lastCall'.op \in VerifierCalls
       THEN /\ UNCHANGED <<balances, tokenVars, configVars, pipelineVars>>
            /\ lastCall'.outcome =
                  Answer(IF lastCall'.op = "verifyProof"
                         THEN AdapterVerifyProof(lastCall'.proof[1],
                                                 lastCall'.publicSignals[1])
                         ELSE AdapterVerifyProofWithValidation(
                                  lastCall'.proof[1], lastCall'.publicSignals[1],
                                  lastCall'.caller, lastCall'.amount))
       ELSE \A proof \in LedgerProofs, input \in SignalArrays :
              /\ AdapterVerifyProof(proof, input)' = AdapterVerifyProof(proof, input)
              /\ \A u \in Users, amount \in Amounts :
                    AdapterVerifyProofWithValidation(proof, input, u, amount)'
                      = AdapterVerifyProofWithValidation(proof, input, u, amount)]_vars

\* A validated call answers true after the ledger's holdings have changed.
C18_Witness ==
    /\ lastCall.op = "verifyProofWithValidation" /\ lastCall.outcome = "true"
    /\ lastCall.amount = 1
    /\ stableHeld > 0

\* C14: when two proof requests with different inputs run at the same time,
\* the proof each one ends with is a proof over the witness of its own input.
C14_EachRequestProvesItsOwnWitness ==
    \A i \in Procs :
        procs[i].pc = "done" =>
            \E w \in CollateralCheck(procs[i].input[1]) \ {NoFile} :
                procs[i].proof[1].pub = PublicSignals(w[1])

\* C12: under every interleaving of two setup runs, once both have ended the
\* final zkey and verification_key.json left on disk, if any, are the proving
\* key and the verification key of one and the same contribution.
C12_ConcurrentSetupLeavesOnePair ==
    (/\ \A i \in Procs : procs[i].pc \in {"done", "failed"}
     /\ Exists(zkeyFinal) \/ Exists(vkeyBuild)) =>
        /\ Exists(zkeyFinal) /\ zkeyFinal[1] \in 1..setupRuns
        /\ vkeyBuild = zkeyFinal

C21_CanBorrowIsTheComparison ==
    (script = "generate-proof" /\ Exists(witnessFile)) =>
        LET w == witnessFile[1]
        IN /\ w.canBorrow \in {0, 1}
           /\ w.canBorrow = 1 <=> w.input.borrowAmount <= w.maxBorrowable

\* C22: a call of verifyProofWithValidation whose public-signal array has
\* fewer than 2 entries is not accepted, and its result is another one than
\* "false", the result given for a well-formed proof that does not verify.
C22_MalformedIsDistinctFromInvalid ==
    (/\ lastCall.op = "verifyProofWithValidation"
     /\ Len(lastCall.publicSignals[1]) < 2) =>
        lastCall.outcome \notin {"true", Answer(FALSE)}

\* C23: a borrow that goes through raises the caller's borrowBalance by
\* exactly the amount and changes no other balance, transfers exactly the
\* amount of stable token from the ledger to the caller, and emits Borrow for
\* that caller and amount.
C23_BorrowBooksTheAmount ==
    [][(lastCall'.op = "borrow" /\ lastCall'.outcome = "ok") =>
          LET user == lastCall'.caller
              amount == lastCall'.amount
          IN /\ amount > 0
             /\ borrowBalance' = [borrowBalance EXCEPT ![user] = @ + amount]
             /\ collateralBalance' = collateralBalance
             /\ lastCall'.transfers = <<Transfer("stable", Ledger, user, amount)>>
             /\ stableHeld' = stableHeld - amount
             /\ collateralHeld' = collateralHeld
             /\ Len(lastCall'.emitted) = 1
             /\ lastCall'.emitted[1].name = "Borrow"
             /\ lastCall'.emitted[1].user = user
             /\ lastCall'.emitted[1].args[1] = amount]_vars

\* A second borrow by an account already in debt has gone through.
C23_Witness ==
    /\ lastCall.op = "borrow" /\ lastCall.outcome = "ok"
    /\ borrowBalance[lastCall.caller] > lastCall.amount

\* C24: depositCollateral, borrow, repay and withdrawCollateral called with
\* amount 0 revert with "amount=0" and change no balance, whatever the state
\* of the ledger.
AmountCalls == {"depositCollateral", "borrow", "repay", "withdrawCollateral"}

C24_ZeroAmountIsRejected ==
    [][(lastCall'.op \in AmountCalls /\ lastCall'.amount = 0) =>
          /\ lastCall'.outcome = "amount=0"
          /\ UNCHANGED <<balances, tokenVars>>]_vars

\* A borrow of 0 was rejected for its amount at a price that every borrow is
\* rejected at.
C24_Witness ==
    /\ lastCall.op = "borrow" /\ lastCall.amount = 0
    /\ lastCall.outcome = "amount=0"
    /\ oraclePrice <= 0
    /\ collateralBalance[lastCall.caller] > 0

\* C25: a deposit that goes through has amount > 0, raises the caller's
\* collateralBalance by exactly the amount, takes exactly the amount of
\* collateral token from the caller and emits Deposit(caller, amount); and a
\* collateralBalance changes in no other way than by its owner's deposit or
\* withdrawal or by a liquidation of the account, so that deposits alone add
\* up to the sum of their amounts.
C25_DepositAddsTheAmount ==
    [][/\ (lastCall'.op = "depositCollateral" /\ lastCall'.outcome = "ok") =>
             LET user == lastCall'.caller
                 amount == lastCall'.amount
             IN /\ amount > 0
                /\ collateralBalance' =
                       [collateralBalance EXCEPT ![user] = @ + amount]
                /\ borrowBalance' = borrowBalance
                /\ lastCall'.transfers =
                       <<Transfer("collateral", user, Ledger, amount)>>
                /\ lastCall'.emitted = <<Event("Deposit", user, <<amount>>)>>
       /\ \A u \in Users :
             collateralBalance'[u] /= collateralBalance[u] =>
                 /\ lastCall'.outcome = "ok"
                 /\ \/ /\ lastCall'.op \in {"depositCollateral", "withdrawCollateral"}
                       /\ lastCall'.caller = u
                    \/ lastCall'.op = "liquidate" /\ lastCall'.amount = u]_vars

\* A second deposit by an account that holds collateral has gone through.
C25_Witness ==
    /\ lastCall.op = "depositCollateral" /\ lastCall.outcome = "ok"
    /\ collateralBalance[lastCall.caller] > lastCall.amount

\* C26: a repay that goes through has amount > 0 and leaves the caller's
\* borrowBalance at max(0, old balance - amount): the old balance less the
\* amount when the amount is smaller, 0 when it is not; no borrowBalance is
\* ever negative, and no other balance of the ledger's books changes.
C26_RepayReducesTheDebt ==
    [][/\ (lastCall'.op = "repay" /\ lastCall'.outcome = "ok") =>
             LET user == lastCall'.caller
                 amount == lastCall'.amount
                 old == borrowBalance[user]
             IN /\ amount > 0
                /\ borrowBalance' =
                       [borrowBalance EXCEPT
                           ![user] = IF old - amount > 0 THEN old - amount ELSE 0]
                /\ amount < old => borrowBalance'[user] = old - amount
                /\ amount >= old => borrowBalance'[user] = 0
                /\ collateralBalance' = collateralBalance
       /\ \A u \in Users : borrowBalance'[u] >= 0]_vars

\* A repayment of part of a debt has gone through.
C26_Witness ==
    /\ lastCall.op = "repay" /\ lastCall.outcome = "ok"
    /\ borrowBalance[lastCall.caller] > 0

\* C27: a withdrawal goes through only with 0 < amount <= the caller's
\* collateralBalance and a position that is solvent with the remaining
\* collateral at the current price (no debt, or a positive price at which the
\* collateral value is at least debt * ratio / 100, both divisions rounding
\* down); with no debt every such amount goes through; the balance then
\* is lower by exactly the amount and the position is solvent.
PositionSolvent(debt, collateral, price, decimals, ratio) ==
    \/ debt = 0
    \/ /\ price > 0
       /\ (collateral * price) \div Pow10(decimals) >= (debt * ratio) \div 100

C27_WithdrawalKeepsSolvency ==
    [][lastCall'.op = "withdrawCollateral" =>
          LET user == lastCall'.caller
              amount == lastCall'.amount
              old == collateralBalance[user]
          IN /\ lastCall'.outcome = "ok" =>
                   /\ 0 < amount /\ amount <= old
                   /\ PositionSolvent(borrowBalance[user], old - amount,
                                      oraclePrice, oracleDecimals,
                                      collateralizationRatio)
                   /\ collateralBalance' =
                          [collateralBalance EXCEPT ![user] = old - amount]
                   /\ borrowBalance' = borrowBalance
                   /\ PositionSolvent(borrowBalance'[user], collateralBalance'[user],
                                      oraclePrice', oracleDecimals',
                                      collateralizationRatio')
             /\ (borrowBalance[user] = 0 /\ 0 < amount /\ amount <= old) =>
                   lastCall'.outcome = "ok"]_vars

\* An account in debt has withdrawn part of its collateral.
C27_Witness ==
    /\ lastCall.op = "withdrawCollateral" /\ lastCall.outcome = "ok"
    /\ borrowBalance[lastCall.caller] > 0
    /\ collateralBalance[lastCall.caller] > 0

\* C29: a liquidation goes through only for an account in debt whose
\* collateral value at the current positive price is below debt * ratio / 100
\* (rounded down, hence also below the exact quotient); a liquidation of a
\* solvent position, and so of any account with no debt, reverts and changes
\* no balance.
C29_OnlyInsolventIsLiquidated ==
    [][lastCall'.op = "liquidate" =>
          LET user == lastCall'.amount
              debt == borrowBalance[user]
              collateralValue ==
                  (collateralBalance[user] * oraclePrice) \div Pow10(oracleDecimals)
          IN /\ lastCall'.outcome = "ok" =>
                   /\ debt > 0 /\ oraclePrice > 0
                   /\ collateralValue < (debt * collateralizationRatio) \div 100
                   /\ collateralValue * 100 < debt * collateralizationRatio
             /\ PositionSolvent(debt, collateralBalance[user], oraclePrice,
                                oracleDecimals, collateralizationRatio) =>
                   /\ lastCall'.outcome = "Position is solvent"
                   /\ UNCHANGED <<balances, tokenVars>>]_vars

\* An account in debt that holds collateral has been liquidated.
C29_Witness ==
    /\ lastCall.op = "liquidate" /\ lastCall.outcome = "ok"
    /\ Len(lastCall.transfers) = 2
    /\ lastCall.transfers[1].amount > 0
    /\ lastCall.transfers[2].amount > 0

\* C28: only the owner changes the configuration.  A setter called by the
\* owner with an argument its bound admits (a ratio >= 100, a threshold
\* <= 100, any verifier, any oracle) goes through and stores the argument; a
\* setter called by another account reverts; and verifier, priceOracle,
\* collateralizationRatio and liquidationThreshold change in no step but a
\* setter call of the owner that went through.
Setters == {"setVerifier", "setPriceOracle", "setCollateralizationRatio",
            "setLiquidationThreshold"}

Configuration ==
    <<verifier, priceOracle, collateralizationRatio, liquidationThreshold>>

\* The value a setter's field holds after the step.
Stored(op) ==
    CASE op = "setVerifier" -> verifier'
      [] op = "setPriceOracle" -> priceOracle'
      [] op = "setCollateralizationRatio" -> collateralizationRatio'
      [] op = "setLiquidationThreshold" -> liquidationThreshold'

Admitted(op, argument) ==
    /\ op = "setCollateralizationRatio" => argument >= 100
    /\ op = "setLiquidationThreshold" => argument <= 100

CompiledAndSetUp ==
    /\ Exists(r1csFile) /\ Exists(wasmJsDir)
    /\ Exists(zkeyFinal) /\ vkeyBuild = zkeyFinal

\* An input.json the circuit has a witness for.
ValidInputFile ==
    /\ Exists(inputJson)
    /\ NoFile \notin CollateralCheck(inputJson[1])

\* A step that finds its artifact missing ends the script with an error and
\* writes nothing: setup without the R1CS, export-verifier without the final
\* zkey, generate-proof without the wasm, the final zkey or input.json.
MissingArtifactStops ==
    /\ (Running("setup", "r1cs") /\ ~Exists(r1csFile))
          => /\ pc' = "exited" /\ exit' = "error"
             /\ UNCHANGED <<zkey0000, zkeyFinal, vkeyBuild>>
    /\ (Idle /\ script' = "export-verifier" /\ ~Exists(zkeyFinal))
          => /\ exit' = "error"
             /\ UNCHANGED verifierSol
    /\ (Running("generate-proof", "check")
            /\ ~(Exists(wasmFile) /\ Exists(zkeyFinal) /\ Exists(inputJson)))
          => /\ pc' = "exited" /\ exit' = "error"
             /\ UNCHANGED <<witnessFile, proofJson>>

\* After compile and setup, generate-proof on a valid input passes its checks
\* and ends with a verified proof.
ProofAfterCompileAndSetup ==
    (script = "generate-proof" /\ ~Idle /\ CompiledAndSetUp /\ ValidInputFile)
        => /\ pc = "check" => pc' = "witness"
           /\ pc' = "exited" => (exit' = "ok" /\ result'.verified = <<TRUE>>)

\* C30: a pipeline step whose prerequisite artifact is missing exits with an
\* error and writes nothing (setup: the R1CS; export-verifier: the final zkey;
\* generate-proof: the wasm, the final zkey, input.json, before the witness is
\* generated); and once compile and setup have completed, generate-proof on a
\* valid input passes these checks and ends with a verified proof.
C30_StepsRunOnTheirPrerequisites ==
    [][MissingArtifactStops /\ ProofAfterCompileAndSetup]_vars

\* The first half of C30 alone.
C30_MissingArtifactStops == [][MissingArtifactStops]_vars

\* generate-proof has stopped at its wasm check although compile and setup
\* have completed and input.json is valid.
C30_StoppedAfterCompileAndSetup ==
    /\ script = "generate-proof" /\ Idle /\ exit = "error"
    /\ CompiledAndSetUp /\ ValidInputFile
    /\ ~Exists(wasmFile)
    /\ witnessFile = NoFile /\ proofJson = NoFile

(***************************************************************************)
(* Re-entrancy.  The five state-changing functions of ZKLending carry      *)
(* OpenZeppelin's nonReentrant modifier and call a token in their body.    *)
(* A call is split at its token call: it enters, the token runs (and may   *)
(* call the ledger back), the token call returns.                          *)
(***************************************************************************)
GuardedOps ==
    {"depositCollateral", "borrow", "repay", "withdrawCollateral", "liquidate"}

ReentrantCall == "ReentrancyGuard: reentrant call"

\* The reason the function gives when its token call returns false.
TransferFailures ==
    {"Transfer failed", "Collateral transfer failed", "Debt payment failed"}

\* The requires a function evaluates before its first token call: the first
\* that fails, or "ok".  arg is the amount, or the account to liquidate.
ChecksBeforeTransfer(op, caller, arg, proof) ==
    LET checks ==
            CASE op = "depositCollateral" -> IF arg = 0 THEN "amount=0" ELSE "ok"
              [] op = "repay" -> IF arg = 0 THEN "amount=0" ELSE "ok"
              [] op = "borrow" -> BorrowChecks(caller, arg, proof, proof.pub)
              [] op = "withdrawCollateral" -> WithdrawChecks(caller, arg)
              [] op = "liquidate" -> LiquidateChecks(arg)
    IN IF checks \in TransferFailures THEN "ok" ELSE checks

\* The balances as the function has written them when it calls the token:
\* borrow, withdrawCollateral and liquidate write first, depositCollateral
\* and repay write after transferFrom has returned.
WrittenBeforeTransfer(op, caller, arg) ==
    CASE op = "borrow" ->
            <<collateralBalance, [borrowBalance EXCEPT ![caller] = @ + arg]>>
      [] op = "withdrawCollateral" ->
            <<[collateralBalance EXCEPT ![caller] = @ - arg], borrowBalance>>
      [] op = "liquidate" ->
            <<[collateralBalance EXCEPT ![arg] = 0],
              [borrowBalance EXCEPT ![arg] = 0]>>
      [] OTHER -> <<collateralBalance, borrowBalance>>

\* The body of a guarded function up to its token call.
EnterBody(op, caller, arg, proof) ==
    LET checks == ChecksBeforeTransfer(op, caller, arg, proof)
    IN IF checks /= "ok"
       THEN Revert(op, caller, arg, checks) /\ entry' = entry
       ELSE /\ entry' = [entered |-> TRUE,
                         call |-> <<[op |-> op, caller |-> caller, arg |-> arg]>>,
                         saved |-> <<collateralBalance, borrowBalance>>]
            /\ collateralBalance' = WrittenBeforeTransfer(op, caller, arg)[1]
            /\ borrowBalance' = WrittenBeforeTransfer(op, caller, arg)[2]
            /\ UNCHANGED <<tokenVars, configVars, lastCall>>

\* modifier nonReentrant: require(_status != _ENTERED, "ReentrancyGuard:
\* reentrant call"); _status = _ENTERED; body; _status = _NOT_ENTERED.
nonReentrant(op, caller, arg, body) ==
    IF entry.entered
    THEN Revert(op, caller, arg, ReentrantCall) /\ entry' = entry
    ELSE body

\* A function is called: under the modifier when it is declared with it.
Function(op, caller, arg, proof, declared) ==
    IF op \in declared
    THEN nonReentrant(op, caller, arg, EnterBody(op, caller, arg, proof))
    ELSE EnterBody(op, caller, arg, proof)

\* The calls tried: liquidate of account 1, borrow with each proof, the
\* others with each amount.
Calls(op, caller, declared) ==
    IF op = "liquidate"
    THEN Function(op, caller, 1, << >>, declared)
    ELSE IF op = "borrow"
    THEN \E amount \in Amounts, proof \in BorrowProofs :
            Function(op, caller, amount, proof, declared)
    ELSE \E amount \in Amounts :
            Function(op, caller, amount, << >>, declared)

\* The ledger with withdrawCollateral declared without nonReentrant.
GuardedCall_WithdrawUnguarded(op, caller) ==
    Calls(op, caller, GuardedOps \ {"withdrawCollateral"})

\* The ledger as declared: "external nonReentrant" on each of the five.
GuardedCall(op, caller) == Calls(op, caller, GuardedOps)

\* A transaction calls a guarded function: account 1 uses the ledger,
\* account 2 liquidates.
EnterCall ==
    /\ ~entry.entered
    /\ \E op \in GuardedOps :
          GuardedCall(op, IF op = "liquidate" THEN 2 ELSE 1)

\* The token, while it runs, calls a guarded function of the ledger on behalf
\* of either account.
NestedCall ==
    /\ entry.entered
    /\ \E op \in GuardedOps, caller \in Users : GuardedCall(op, caller)

\* The token call returns false, or reverts: the transaction is undone.
TransferFails ==
    /\ entry.entered
    /\ LET c == entry.call[1]
       IN /\ collateralBalance' = entry.saved[1]
          /\ borrowBalance' = entry.saved[2]
          /\ \E reason \in IF c.op = "liquidate"
                           THEN {"Collateral transfer failed", "Debt payment failed"}
                           ELSE {"Transfer failed"} :
                lastCall' = Call(c.op, c.caller, c.arg, reason)
    /\ entry' = NotEntered
    /\ UNCHANGED <<tokenVars, configVars>>

\* The token call (both, in liquidate) returns true: the function writes what
\* it writes after it, and the guard is released.
TransferReturns ==
    /\ entry.entered
    /\ LET c == entry.call[1]
           collateral == entry.saved[1]
           debt == entry.saved[2]
       IN /\ CASE c.op = "depositCollateral" ->
                    /\ collateralBalance[c.caller] + c.arg <= MaxBalance
                    /\ collateralBalance' = [collateralBalance EXCEPT ![c.caller] = @ + c.arg]
                    /\ collateralHeld' = collateralHeld + c.arg
                    /\ UNCHANGED <<borrowBalance, stableHeld>>
               [] c.op = "repay" ->
                    /\ stableHeld + c.arg <= MaxStable
                    /\ stableHeld' = stableHeld + c.arg
                    /\ borrowBalance' =
                          [borrowBalance EXCEPT
                              ![c.caller] = IF c.arg >= @ THEN 0 ELSE @ - c.arg]
                    /\ UNCHANGED <<collateralBalance, collateralHeld>>
               [] c.op = "borrow" ->
                    /\ stableHeld >= c.arg
                    /\ stableHeld' = stableHeld - c.arg
                    /\ UNCHANGED <<balances, collateralHeld>>
               [] c.op = "withdrawCollateral" ->
                    /\ collateralHeld >= c.arg
                    /\ collateralHeld' = collateralHeld - c.arg
                    /\ UNCHANGED <<balances, stableHeld>>
               [] c.op = "liquidate" ->
                    /\ collateralHeld >= collateral[c.arg]
                    /\ stableHeld + debt[c.arg] <= MaxStable
                    /\ collateralHeld' = collateralHeld - collateral[c.arg]
                    /\ stableHeld' = stableHeld + debt[c.arg]
                    /\ UNCHANGED balances
          /\ lastCall' = Call(c.op, c.caller, c.arg, "ok")
    /\ entry' = NotEntered
    /\ UNCHANGED configVars

ReentryNext ==
    \/ (setPrice \/ FundStable) /\ ~entry.entered /\ UNCHANGED entry
    \/ EnterCall
    \/ NestedCall
    \/ TransferFails
    \/ TransferReturns

ReentryStep ==
    ReentryNext /\ UNCHANGED <<diskVars, requestFiles, runVars, procs, wire>>

ReentrySpec == InitDeployed /\ [][ReentryStep]_vars

\* C31: while one of depositCollateral, borrow, repay, withdrawCollateral and
\* liquidate is executing, its token call included, a nested call of any of
\* the five is rejected by the re-entrancy guard and neither the balances nor
\* the token holdings change until the outer call is over.
C31_NestedCallIsRejected ==
    [][(entry.entered /\ entry'.entered)
         => /\ UNCHANGED <<balances, tokenVars, entry>>
            /\ lastCall' /= lastCall
                  => /\ lastCall'.op \in GuardedOps
                     /\ lastCall'.outcome = ReentrantCall]_vars

\* A withdrawal is inside its token transfer, its balance already lowered,
\* and a nested borrow by the same account has just been turned away.
C31_Witness ==
    /\ entry.entered
    /\ entry.call[1].op = "withdrawCollateral"
    /\ collateralBalance /= entry.saved[1]
    /\ lastCall.op = "borrow" /\ lastCall.outcome = ReentrantCall
    /\ lastCall.caller = entry.call[1].caller

(***************************************************************************)
(* The borrowing limit: account 1 uses the ledger and presents any proof   *)
(* with any public signals, account 2 liquidates, the oracle's price moves *)
(* and the owner changes the ratio.                                        *)
(***************************************************************************)
LimitNext ==
    \/ setPrice
    \/ FundStable
    \/ \E ratio \in RatioArguments : setCollateralizationRatio(Owner, ratio)
    \/ \E amount \in Amounts : depositCollateral(1, amount)
    \/ \E amount \in Amounts, proof \in LedgerProofs,
          publicSignals \in SignalArrays :
            borrow(1, amount, proof, publicSignals)
    \/ \E amount \in Amounts : repay(1, amount)
    \/ \E amount \in Amounts : withdrawCollateral(1, amount)
    \/ liquidate(2, 1)

LimitStep == LimitNext /\ UNCHANGED pipelineVars

LimitSpec == InitDeployed /\ [][LimitStep]_vars

(***************************************************************************)
(* Claims about the borrowing limit.                                       *)
(***************************************************************************)
\* floor(floor(collateral * price / 10^decimals) * 100 / ratio)
MaxBorrowable(collateral, price, decimals, ratio) ==
    (((collateral * price) \div Pow10(decimals)) * 100) \div ratio

\* The limit of an account in the current state.
Limit(user) ==
    MaxBorrowable(collateralBalance[user], oraclePrice, oracleDecimals,
                  collateralizationRatio)

\* C32: a borrow that would take borrowBalance[caller] + amount above
\* getMaxBorrowable(caller) = floor(floor(collateralBalance * price /
\* 10^decimals) * 100 / collateralizationRatio) is rejected and changes
\* nothing, whatever proof and public signals come with it; so right after a
\* successful borrow the caller's debt is at most that limit.
C32_BorrowStaysWithinLimit ==
    [][lastCall'.op = "borrow" =>
          LET caller == lastCall'.caller
              amount == lastCall'.amount
          IN /\ PriceValid => getMaxBorrowable(caller) = Limit(caller)
             /\ (PriceValid /\ borrowBalance[caller] + amount > Limit(caller))
                   => /\ lastCall'.outcome /= "ok"
                      /\ UNCHANGED <<balances, tokenVars, configVars>>
             /\ lastCall'.outcome = "ok"
                   => /\ borrowBalance'[caller] <= Limit(caller)
                      /\ borrowBalance'[caller] <=
                            MaxBorrowable(collateralBalance'[caller], oraclePrice',
                                          oracleDecimals', collateralizationRatio')]_vars

\* A borrow of an account in debt has been rejected for the limit.
C32_Witness ==
    /\ lastCall.op = "borrow" /\ lastCall.outcome = "Exceeds max borrowable"
    /\ borrowBalance[lastCall.caller] > 0
    /\ borrowBalance[lastCall.caller] + lastCall.amount > Limit(lastCall.caller)

\* C33: the borrowing limit and the solvency test agree.  In the state right
\* after a successful borrow (price and ratio as the borrow read them),
\* isPositionSolvent(caller, collateralBalance[caller]) is true and a
\* liquidation of the borrower is turned away: floor(cv * 100 / ratio) as the
\* limit never lets the debt reach a value whose floor(debt * ratio / 100)
\* is above cv.
C33_BorrowLeavesPositionSolvent ==
    (lastCall.op = "borrow" /\ lastCall.outcome = "ok") =>
        LET caller == lastCall.caller
            collateralValue ==
                (collateralBalance[caller] * oraclePrice) \div Pow10(oracleDecimals)
        IN /\ isPositionSolvent(caller, collateralBalance[caller]) = "true"
           /\ LiquidateChecks(caller) = "Position is solvent"
           /\ (borrowBalance[caller] * collateralizationRatio) \div 100
                 <= collateralValue

\* A borrow has taken the debt to the limit where the limit is a rounded
\* quotient.
C33_Witness ==
    /\ lastCall.op = "borrow" /\ lastCall.outcome = "ok"
    /\ borrowBalance[lastCall.caller] = Limit(lastCall.caller)
    /\ LET collateralValue ==
               (collateralBalance[lastCall.caller] * oraclePrice)
                   \div Pow10(oracleDecimals)
       IN (collateralValue * 100) % collateralizationRatio /= 0

(***************************************************************************)
(* C34: the keys of the proof-generation paths.                            *)
(***************************************************************************)
\* The proof the running (or last) proof request has made, if it has made one.
ProducedProof ==
    IF script = "generate-proof"
    THEN IF pc \in {"verify", "report"} \/ result.verified /= << >>
         THEN proofJson ELSE << >>
    ELSE IF script \in {"generateProof", "client"} THEN result.proof
    ELSE << >>

\* The proof was made with the final zkey, and the verification key and the
\* Solidity verifier exported from that zkey accept it.
MadeWithFinalZkey(proof) ==
    /\ proof.key = zkeyFinal[1]
    /\ vkeyBuild = zkeyFinal => Groth16Verify(vkeyBuild[1], proof.pub, proof)
    /\ verifierSol = zkeyFinal => Groth16Verify(verifierSol[1], proof.pub, proof)

\* C34: in every proof-generation path (scripts/generate-proof.js,
\* circuits/generate_proof.js, the client's generateBorrowProof) the zkey the
\* proof is made with is the final zkey, the one verification_key.json and
\* the Solidity verifier are exported from, so the proof is accepted by local
\* verification and by the exported verifier.
C34_ProvingKeyIsTheFinalZkey ==
    ProducedProof /= << >> => MadeWithFinalZkey(ProducedProof[1])

\* The same for the two paths that name collateral_check_final.zkey.
C34_ScriptAndClientUseFinalZkey ==
    (script /= "generateProof" /\ ProducedProof /= << >>)
        => MadeWithFinalZkey(ProducedProof[1])

\* generateProof has made a proof with collateral_check_0000.zkey, and the
\* key exported from the final zkey has rejected it.
C34_ProvedWithFirstPhaseZkey ==
    /\ script = "generateProof" /\ pc = "exited"
    /\ result.proof /= << >>
    /\ result.proof[1].key = zkey0000[1]
    /\ zkey0000 /= zkeyFinal
    /\ vkeyCircuits = zkeyFinal
    /\ result.verified = <<FALSE>>

(***************************************************************************)
(* Claims about liquidation, repayment and the ledger's books.             *)
(***************************************************************************)
\* C35: a successful liquidate(user) sets collateralBalance[user] and
\* borrowBalance[user] to 0, transfers the whole recorded collateral to the
\* liquidator and takes exactly the recorded debt in stable token from the
\* liquidator; a liquidate that does not succeed, a failed token transfer
\* included, changes no balance and no token holding.
C35_LiquidationSettlesThePosition ==
    [][lastCall'.op = "liquidate" =>
          LET liquidator == lastCall'.caller
              user == lastCall'.amount
          IN IF lastCall'.outcome = "ok"
             THEN /\ collateralBalance'[user] = 0
                  /\ borrowBalance'[user] = 0
                  /\ \A other \in Users \ {user} :
                        /\ collateralBalance'[other] = collateralBalance[other]
                        /\ borrowBalance'[other] = borrowBalance[other]
                  /\ lastCall'.transfers =
                        <<Transfer("collateral", Ledger, liquidator,
                                   collateralBalance[user]),
                          Transfer("stable", liquidator, Ledger,
                                   borrowBalance[user])>>
                  /\ collateralHeld' = collateralHeld - collateralBalance[user]
                  /\ stableHeld' = stableHeld + borrowBalance[user]
             ELSE UNCHANGED <<balances, tokenVars>>]_vars

\* Another account has liquidated a position that held collateral and debt.
C35_Witness ==
    /\ lastCall.op = "liquidate" /\ lastCall.outcome = "ok"
    /\ lastCall.caller /= lastCall.amount
    /\ lastCall.transfers[1].amount > 0
    /\ lastCall.transfers[2].amount > 0
    /\ collateralBalance[lastCall.amount] = 0

\* C36: repay takes no more stable token from the caller than the caller
\* owes: the amount transferred to the ledger by a repay equals the decrease
\* of borrowBalance[caller].  (The code takes the whole amount and sets an
\* overpaid debt to 0.)
C36_RepayTakesWhatIsOwed ==
    [][(lastCall'.op = "repay" /\ lastCall'.outcome = "ok") =>
          LET caller == lastCall'.caller
              paid == borrowBalance[caller] - borrowBalance'[caller]
          IN /\ lastCall'.transfers = <<Transfer("stable", caller, Ledger, paid)>>
             /\ stableHeld' - stableHeld = paid]_vars

\* A repay within the debt takes what it books.
C36_RepayWithinDebtIsBooked ==
    [][(/\ lastCall'.op = "repay" /\ lastCall'.outcome = "ok"
        /\ lastCall'.amount <= borrowBalance[lastCall'.caller]) =>
          /\ stableHeld' - stableHeld = lastCall'.amount
          /\ borrowBalance[lastCall'.caller] - borrowBalance'[lastCall'.caller]
                = lastCall'.amount]_vars

\* An account without debt has paid and the ledger has kept the payment.
C36_Overpaid ==
    /\ lastCall.op = "repay" /\ lastCall.outcome = "ok"
    /\ lastCall.amount > 0
    /\ borrowBalance[lastCall.caller] = 0
    /\ stableHeld > 0
    /\ \A u \in Users : collateralBalance[u] = 0

RECURSIVE SumOver(_, _)
SumOver(f, S) ==
    IF S = {} THEN 0
    ELSE LET u == CHOOSE x \in S : TRUE IN f[u] + SumOver(f, S \ {u})

\* C37: collateral is conserved.  In every state reached by depositCollateral,
\* borrow, repay, withdrawCollateral and liquidate, with a token that moves
\* what it is told to and no transfer made to the ledger directly, the
\* collateral tokens the ledger holds equal the sum of collateralBalance over
\* the accounts.
C37_CollateralIsConserved ==
    collateralHeld = SumOver(collateralBalance, Users)

\* One account has been liquidated while the other's collateral stays.
C37_Witness ==
    /\ lastCall.op = "liquidate" /\ lastCall.outcome = "ok"
    /\ lastCall.transfers[1].amount > 0
    /\ collateralHeld > 0

\* C38: depositCollateral, borrow, repay and withdrawCollateral change the
\* collateralBalance / borrowBalance entry of their caller only, and a change
\* of an account's balances by another account is a liquidation of it.
C38_OnlyOwnBalancesChange ==
    [][\A u \in Users :
          (\/ collateralBalance'[u] /= collateralBalance[u]
           \/ borrowBalance'[u] /= borrowBalance[u])
             => \/ /\ lastCall'.op \in {"depositCollateral", "borrow", "repay",
                                       "withdrawCollateral"}
                   /\ lastCall'.caller = u
                   /\ lastCall'.outcome = "ok"
                \/ /\ lastCall'.op = "liquidate"
                   /\ lastCall'.amount = u
                   /\ lastCall'.outcome = "ok"]_vars

\* Account 2 has repaid its debt while account 1 is in debt too.
C38_Witness ==
    /\ lastCall.op = "repay" /\ lastCall.outcome = "ok"
    /\ lastCall.caller = 2
    /\ borrowBalance[2] = 0
    /\ borrowBalance[1] > 0 /\ collateralBalance[1] > 0

\* C39: verifyProofWithValidation(a, b, c, input, user, amount) returns true
\* exactly when the proof checks of borrow pass for the caller user and the
\* same amount: the verifier accepts (a, b, c, input), input has at least two
\* entries, input[0] is the user's address and input[1] is the amount.
C39_AdapterAgreesWithBorrow ==
    lastCall.op = "verifyProofWithValidation" =>
        LET proof == lastCall.proof[1]
            input == lastCall.publicSignals[1]
            user == lastCall.caller
            amount == lastCall.amount
        IN /\ lastCall.outcome \in {"true", "false"}
           /\ lastCall.outcome = "true"
                 <=> ProofChecks(user, amount, proof, input) = "ok"
           /\ lastCall.outcome = "true"
                 <=> /\ VerifierVerifyProof(proof, input)
                     /\ Len(input) >= 2
                     /\ input[1] = user
                     /\ input[2] = amount

\* The adapter has turned away, for its amount, a proof the verifier accepts
\* for the user named.
C39_Witness ==
    /\ lastCall.op = "verifyProofWithValidation" /\ lastCall.outcome = "false"
    /\ VerifierVerifyProof(lastCall.proof[1], lastCall.publicSignals[1])
    /\ lastCall.publicSignals[1][1] = lastCall.caller
    /\ lastCall.publicSignals[1][2] /= lastCall.amount

====
